---------------------------- MODULE Spec2Model ----------------------------
(***************************************************************************)
(* Layout resolution and playback orchestration of the multi-layout HLS    *)
(* player.  The repository holds several iterations of one React           *)
(* component; each iteration is modelled as a state machine of its own:    *)
(*                                                                         *)
(*   SpecRegion   the region-click iteration          (src/unnamed/part_002)*)
(*   SpecVariant  the variant-switching controller    (src/unnamed/part_001 *)
(*                and its stall-watchdog successor     src/unnamed/part_003)*)
(*                                                                         *)
(* One step of a specification is one callback of the event loop: a user   *)
(* event handler, a timer, an engine notification or the continuation of   *)
(* an awaited promise, together with every React effect that the state     *)
(* changes of that callback trigger.                                       *)
(***************************************************************************)
EXTENDS Integers, Sequences, FiniteSets, TLC

(***************************************************************************)
(* Bounds of the model.                                                    *)
(***************************************************************************)
\* manifest loads (loadManifest continuations) that may be pending at once
MaxManifestLoads == 1
\* engine load() promises of layout switches that may be pending at once
MaxLayoutLoads == 2
\* largest manifest version the variant controller is followed to
MaxVersion == 2
MaxEngineLoads == 2
MaxSelectCalls == 2
MaxReloads == 1

(***************************************************************************)
(* Strings.  A layout name is a sequence of characters, so that            *)
(* toLowerCase and localeCompare are computed, not assumed.                *)
(***************************************************************************)
EmptyString == << >>

CharLower(c) ==
    CASE c = "A" -> "a"
      [] c = "B" -> "b"
      [] c = "C" -> "c"
      [] c = "L" -> "l"
      [] OTHER -> c

ToLowerCase(s) == [i \in 1..Len(s) |-> CharLower(s[i])]

\* the characters of the names in use, in the order of their primary
\* collation weights: punctuation, digits, letters
CollationOrder ==
    <<".", "1", "2", "a", "b", "c", "d", "e", "i", "l", "o", "t", "u", "w", "x",
      "y", "z">>

\* primary collation weight of a character: the letter, whatever its case
CharPrimary(c) ==
    IF \E k \in 1..Len(CollationOrder) : CollationOrder[k] = CharLower(c)
    THEN CHOOSE k \in 1..Len(CollationOrder) : CollationOrder[k] = CharLower(c)
    ELSE 0

\* tertiary collation weight: lower case sorts before upper case
CharTertiary(c) == IF CharLower(c) = c THEN 0 ELSE 1

RECURSIVE LexLess(_, _)
\* lexicographic order of two sequences of weights
LexLess(s, t) ==
    IF t = << >> THEN FALSE
    ELSE IF s = << >> THEN TRUE
    ELSE IF Head(s) # Head(t) THEN Head(s) < Head(t)
    ELSE LexLess(Tail(s), Tail(t))

PrimaryKey(s) == [i \in 1..Len(s) |-> CharPrimary(s[i])]
TertiaryKey(s) == [i \in 1..Len(s) |-> CharTertiary(s[i])]

\* String.prototype.localeCompare(a, b) < 0 in the default collation
LocaleLess(s, t) ==
    \/ LexLess(PrimaryKey(s), PrimaryKey(t))
    \/ /\ PrimaryKey(s) = PrimaryKey(t)
       /\ LexLess(TertiaryKey(s), TertiaryKey(t))

(***************************************************************************)
(* URLs.  A URL is the sequence of its '/'-separated parts, which is what  *)
(* split('/') and lastIndexOf('/') look at.                                *)
(***************************************************************************)
HlsUrlA == <<"https:", "", "edge", "hls", "s1", "e1", "master.m3u8">>
\* a URL with no 'hls' part: the region service's stream path cannot be cut from it
PlainUrl == <<"https:", "", "cdn", "live", "master.m3u8">>

Urls == {HlsUrlA, PlainUrl}

\* the text field's content: a URL, possibly empty, possibly padded with blanks
UrlInputs == [padded : BOOLEAN, text : Urls \cup {EmptyString}]

\* hlsUrl.trim()
Trim(input) == input.text

\* manifestUrl.substring(0, manifestUrl.lastIndexOf('/') + 1)
BaseUrl(manifestUrl) ==
    IF Len(manifestUrl) = 0 THEN << >>
    ELSE SubSeq(manifestUrl, 1, Len(manifestUrl) - 1)

\* `${baseUrl}${layout.name}/master.m3u8`
MasterUrl(manifestUrl, layoutName) ==
    [base |-> BaseUrl(manifestUrl), key |-> layoutName, suffix |-> "/master.m3u8"]

\* urlParts.findIndex(part => part === 'hls'), 1-based, 0 when there is none
HlsIndex(url) ==
    IF \E i \in 1..Len(url) : url[i] = "hls"
    THEN CHOOSE i \in 1..Len(url) :
            /\ url[i] = "hls"
            /\ \A j \in 1..(i - 1) : url[j] # "hls"
    ELSE 0

\* whether fetchAllLayoutRegions can cut the stream path from the URL
StreamPathParses(url) == HlsIndex(url) # 0 /\ HlsIndex(url) + 2 <= Len(url)

(***************************************************************************)
(* Manifests.  A manifest is the sequence of its lines; a line is a        *)
(* stream-info declaration with the attributes the regular expressions     *)
(* pick out of it, a URI, a comment or a blank line.                       *)
(***************************************************************************)
NoNumber == -1
NoText == ""

InfLine(bw, res, name, video) ==
    [kind |-> "inf", bandwidth |-> bw, resolution |-> res,
     name |-> name, video |-> video, path |-> << >>]
UriLine(path) ==
    [kind |-> "uri", bandwidth |-> NoNumber, resolution |-> NoText,
     name |-> EmptyString, video |-> EmptyString, path |-> path]
CommentLine ==
    [kind |-> "comment", bandwidth |-> NoNumber, resolution |-> NoText,
     name |-> EmptyString, video |-> EmptyString, path |-> << >>]
BlankLine ==
    [kind |-> "blank", bandwidth |-> NoNumber, resolution |-> NoText,
     name |-> EmptyString, video |-> EmptyString, path |-> << >>]

\* a manifest with no stream-info line
ManifestEmpty == <<CommentLine>>
\* one layout, two rungs of its ladder
ManifestOne ==
    <<CommentLine,
      InfLine(800000, "640x360", <<"a">>, EmptyString), UriLine(<< <<"a">>, <<"l">> >>),
      InfLine(2000000, "1920x1080", <<"a">>, EmptyString), UriLine(<< <<"a">>, <<"h">> >>)>>
\* two layouts, declared out of order, one keyed by NAME and one by its path
ManifestTwo ==
    <<CommentLine,
      InfLine(800000, "640x360", <<"b">>, EmptyString), UriLine(<< <<"x">>, <<"l">> >>),
      InfLine(800000, "640x360", EmptyString, EmptyString), UriLine(<< <<"a">>, <<"l">> >>),
      InfLine(NoNumber, "640x360", <<"c">>, EmptyString), UriLine(<< <<"c">>, <<"l">> >>),
      InfLine(800000, "640x360", <<"c">>, EmptyString), CommentLine>>
\* three layouts, one upper case, one keyed by VIDEO
ManifestThree ==
    <<InfLine(800000, "640x360", EmptyString, <<"B">>), UriLine(<< <<"l">> >>),
      InfLine(800000, "640x360", <<"c">>, <<"a">>), UriLine(<< <<"l">> >>),
      BlankLine,
      InfLine(800000, "640x360", <<"a">>, EmptyString), UriLine(<< <<"l">> >>)>>

\* the manifests the server answers with
Manifests == {ManifestEmpty, ManifestOne, ManifestTwo}

\* a scan that takes whatever line follows for the URI line
AnyNextLine(lines, i) == i + 1 <= Len(lines)

\* nextLine of line i is a URI: defined, not empty after trim(), not a '#' line
HasUriLine(lines, i) == i + 1 <= Len(lines) /\ lines[i + 1].kind = "uri"

\* nameMatch?.[1] || videoMatch?.[1], else the last directory of the URI line
LayoutNameOf(lines, i) ==
    IF lines[i].name # EmptyString THEN lines[i].name
    ELSE IF lines[i].video # EmptyString THEN lines[i].video
    ELSE IF Len(lines[i + 1].path) > 1
         THEN lines[i + 1].path[Len(lines[i + 1].path) - 1]
    ELSE EmptyString

\* the stream-info lines that add a stream to layoutMap
IsEntry(lines, i) ==
    /\ lines[i].kind = "inf"
    /\ HasUriLine(lines, i)
    /\ LayoutNameOf(lines, i) # EmptyString
    /\ lines[i].bandwidth # NoNumber
    /\ lines[i].resolution # NoText

\* the keys of layoutMap after the scan
LayoutKeys(lines) ==
    {LayoutNameOf(lines, i) : i \in {j \in 1..Len(lines) : IsEntry(lines, j)}}

RECURSIVE SortedNames(_)
\* layoutsArray.sort((a, b) => a.name.localeCompare(b.name)) over distinct names
SortedNames(names) ==
    IF names = {} THEN << >>
    ELSE LET first == CHOOSE n \in names : \A m \in names \ {n} : LocaleLess(n, m)
         IN  <<first>> \o SortedNames(names \ {first})

\* the array parseManifestForLayouts returns for a fetched manifest
ParseLayouts(manifestUrl, lines) ==
    LET sorted == SortedNames(LayoutKeys(lines))
    IN  [i \in 1..Len(sorted) |->
            [name |-> sorted[i], displayName |-> sorted[i],
             masterUrl |-> MasterUrl(manifestUrl, sorted[i])]]

\* what fetch(manifestUrl) settles with
FetchResponses ==
    {[kind |-> "transport", status |-> 0, body |-> << >>],
     [kind |-> "http", status |-> 404, body |-> << >>]}
    \cup {[kind |-> "http", status |-> 200, body |-> m] : m \in Manifests}

\* response.ok
ResponseOk(r) == r.kind = "http" /\ r.status >= 200 /\ r.status <= 299

(***************************************************************************)
(* Region metadata (the region service's response).                        *)
(***************************************************************************)
\* a region's optional parent_layout_name, when the service leaves it out
Undefined == <<"undefined">>

Region(x, y, w, h, idx, parent) ==
    [x |-> x, y |-> y, width |-> w, height |-> h,
     source_type |-> "camera", source_idx |-> idx, parent_layout_name |-> parent]

DefaultCanvas == [width |-> 1920, height |-> 1080]

\* data.data of a successful response: one region set per layout
RegionData ==
    <<[layout_name |-> <<"A">>, canvas_width |-> 1920, canvas_height |-> 1080,
       regions |-> <<Region(0, 0, 1920, 1080, 0, <<"a">>),
                     Region(0, 0, 960, 540, 1, <<"B">>),
                     Region(960, 0, 960, 540, 2, <<"z">>),
                     Region(0, 540, 960, 540, 3, Undefined)>>],
      [layout_name |-> <<"b">>, canvas_width |-> 1280, canvas_height |-> 720,
       regions |-> <<Region(0, 0, 640, 360, 0, <<"A">>),
                     Region(0, 0, 1280, 720, 1, <<"b">>)>>]>>

\* what the region service's fetch settles with: a failure, a body without a
\* data array, or the region sets
RegionResponses ==
    {[ok |-> FALSE, isArray |-> FALSE, data |-> << >>],
     [ok |-> TRUE, isArray |-> FALSE, data |-> << >>],
     [ok |-> TRUE, isArray |-> TRUE, data |-> << >>],
     [ok |-> TRUE, isArray |-> TRUE, data |-> RegionData]}

\* the canvas points a click is mapped to
CanvasPoints ==
    {[x |-> 100, y |-> 100], [x |-> 1000, y |-> 100], [x |-> 100, y |-> 600],
     [x |-> 1000, y |-> 600], [x |-> 2000, y |-> 100]}

(***************************************************************************)
(* State.                                                                  *)
(***************************************************************************)
NoError == "null"
NoToken == "null"
NoLayout == EmptyString
NullRef == <<"null">>
\* the token the token endpoint issues, and the tokens a user may paste
ServerToken == "t1"
Tokens == {"t1", "t2"}

VARIABLES
    manifestUrlToLoad,      \* useState: the URL the manifest effect loads
    layouts,                \* useState: the parsed layouts, in sorted order
    selectedLayout,         \* useState: the selected layout's name, or ''
    isLoading,              \* useState
    isSwitching,            \* useState
    error,                  \* useState: the message shown, or null
    isPlayerReady,          \* useState: the engine has been created
    regions,                \* useState: the regions used for hit testing
    allLayoutRegions,       \* useState: the region sets the service returned
    canvasDimensions,       \* useState
    token,                  \* useState: the bearer token, or null
    showManualTokenInput,   \* useState
    isTokenLoading,         \* useState
    currentLayoutRef,       \* useRef: the layout the engine last loaded
    manifestLoads,          \* the loadManifest calls that have not returned
    layoutLoads             \* the loadLayout calls awaiting player.load

regionVars ==
    <<manifestUrlToLoad, layouts, selectedLayout, isLoading, isSwitching, error,
      isPlayerReady, regions, allLayoutRegions, canvasDimensions, token,
      showManualTokenInput, isTokenLoading, currentLayoutRef, manifestLoads,
      layoutLoads>>

\* The state of the variant-switching component (part_001, part_003), and of
\* the engine as that component observes it.
VARIABLES
    iteration,            \* the source file of the component that is mounted
    programs,             \* useState([])
    selectedProgramLabel, \* useState('')
    abrEnabled,           \* useState(false)
    switchTimeoutRef,     \* useRef(null): the 5 s timer of the switch
    manifestVersionRef,   \* useRef(0)
    engineLoads,          \* the player.load calls of loadManifest not yet settled
    variantTracks,        \* player.getVariantTracks() of the current player
    activeVariant,        \* the id of the track with active = true
    engineAbr,            \* the abr.enabled setting of the current player
    selectCalls,          \* the selectVariantTrack calls made so far
    lastLog,              \* the newest entry of playerLogs, as far as Logged tells
    reloads,              \* the forceReload calls not yet returned
    reloadPrompt,         \* the URL of the pending network-error prompt
    loadRequests          \* the handleLoadClick calls made with a non-empty URL

\* the stall watchdog of part_003 and what it reads of the video element and
\* of the engine; positions are in tenths of a second
VARIABLES
    stallCountRef,        \* useRef(0): the miss counter
    lastTimeUpdateRef,    \* useRef(0): the position the previous sample saw
    playbackStalled,      \* useState(false)
    lastPlaybackTime,     \* useState(0)
    videoCurrentTime,     \* video.currentTime
    videoPaused,          \* video.paused
    engineBuffering,      \* the buffering state the engine notified last
    isLive,               \* player.isLive()
    seekRangeEnd,         \* player.seekRange().end
    cooldownTimers,       \* the pending setTimeout callbacks of the recoveries
    recoveries,           \* the recovery branches taken so far
    seeks,                \* the assignments to video.currentTime made so far
    stalledBy,            \* the recovery that raised playbackStalled last
    missRun,              \* the newest samples in a row that saw no progress
    contentLoads          \* the loadManifest calls made while the watchdog runs

stallVars ==
    <<stallCountRef, lastTimeUpdateRef, playbackStalled, lastPlaybackTime,
      videoCurrentTime, videoPaused, engineBuffering, isLive, seekRangeEnd,
      cooldownTimers, recoveries, seeks, stalledBy, missRun, contentLoads>>

variantVars ==
    <<iteration, programs, selectedProgramLabel, abrEnabled, switchTimeoutRef,
      manifestVersionRef, engineLoads, variantTracks, activeVariant, engineAbr,
      selectCalls, lastLog, reloads, reloadPrompt, loadRequests, stallVars>>

\* the variables that only the region-click component has
regionOnlyVars ==
    <<layouts, selectedLayout, regions, allLayoutRegions, canvasDimensions, token,
      showManualTokenInput, isTokenLoading, currentLayoutRef, manifestLoads,
      layoutLoads>>

\* the session storage of the tab, and the getToken calls made in it
VARIABLES
    sessionToken,         \* sessionStorage.getItem('token'), or null
    tokenCalls            \* the getToken calls: their stage, result, and overlap

storageVars == <<sessionToken, tokenCalls>>

\* one call of parseManifestForLayouts (src/src/App.js)
VARIABLES
    parserInput,          \* its manifestUrl and the lines of the fetched text
    parserOutput          \* whether it returned, and the array it returned

parseVars == <<parserInput, parserOutput>>

\* the timers a component started with setTimeout and keeps no handle of
VARIABLES
    switchTimers,         \* part_000: the 5000 ms callbacks of the switch effect
    autoLoadTimers        \* App.js: the 100 ms callbacks of loadManifest

timerVars == <<switchTimers, autoLoadTimers>>

vars == <<regionVars, variantVars, storageVars, parseVars, timerVars>>

NoTimer == "null"
NoLabel == ""
NoVariant == -1
NoPrompt == <<"none">>

\* what the model keeps of a log entry: the entries of a refused selection, of
\* the switch timeout and of a discarded load are told apart from the others
LoggedKinds ==
    {"operation in progress", "Switch timeout reached", "Manifest load cancelled",
     "Fallback load also failed"}

Logged(message) == IF message \in LoggedKinds THEN message ELSE "other"

NoCall == [url |-> << >>, lines |-> << >>]
NotReturned == [returned |-> FALSE, layouts |-> << >>]

\* parseManifestForLayouts not called
\* no setTimeout callback is pending
NoTimers ==
    /\ switchTimers = << >>
    /\ autoLoadTimers = << >>

ParserIdle ==
    /\ parserInput = NoCall
    /\ parserOutput = NotReturned

\* a getToken call that awaits the token endpoint; `during` holds the calls
\* that were awaiting it as well when this one started
PendingCall(calls) ==
    [stage |-> "fetch", result |-> NoToken,
     during |-> {j \in 1..Len(calls) : calls[j].stage = "fetch"}]

\* nothing in sessionStorage, and no getToken call made
StorageEmpty ==
    /\ sessionToken = NoToken
    /\ tokenCalls = << >>

\* the stall watchdog's refs and state after mount, before any content plays
StallMounted ==
    /\ stallCountRef = 0
    /\ lastTimeUpdateRef = 0
    /\ playbackStalled = FALSE
    /\ lastPlaybackTime = 0
    /\ videoCurrentTime = 0
    /\ videoPaused = TRUE
    /\ engineBuffering = FALSE
    /\ isLive = FALSE
    /\ seekRangeEnd = 0
    /\ cooldownTimers = << >>
    /\ recoveries = 0
    /\ seeks = 0
    /\ stalledBy = 0
    /\ missRun = 0
    /\ contentLoads = 0

\* the variant-switching component's state right after mount
VariantMounted ==
    /\ programs = << >>
    /\ selectedProgramLabel = NoLabel
    /\ abrEnabled = FALSE
    /\ switchTimeoutRef = NoTimer
    /\ manifestVersionRef = 0
    /\ engineLoads = << >>
    /\ variantTracks = << >>
    /\ activeVariant = NoVariant
    /\ engineAbr = FALSE
    /\ selectCalls = 0
    /\ lastLog = Logged("mounted")
    /\ reloads = << >>
    /\ reloadPrompt = NoPrompt
    /\ loadRequests = 0

\* the names of an array of layouts
Names(lays) == {lays[i].name : i \in 1..Len(lays)}

\* layouts.find(l => l.name === name): the index of the layout found, 0 for
\* undefined
FindLayout(lays, name) ==
    IF \E i \in 1..Len(lays) : lays[i].name = name
    THEN CHOOSE i \in 1..Len(lays) :
            /\ lays[i].name = name
            /\ \A j \in 1..(i - 1) : lays[j].name # name
    ELSE 0

\* allLayoutRegions.find(l => l.layout_name.toLowerCase() ===
\*                            selectedLayout.toLowerCase())
\* (the index of the region set found, 0 for undefined)
FindRegionSet(alr, sel) ==
    IF \E i \in 1..Len(alr) : ToLowerCase(alr[i].layout_name) = ToLowerCase(sel)
    THEN CHOOSE i \in 1..Len(alr) :
            /\ ToLowerCase(alr[i].layout_name) = ToLowerCase(sel)
            /\ \A j \in 1..(i - 1) :
                  ToLowerCase(alr[j].layout_name) # ToLowerCase(sel)
    ELSE 0

\* mapRegionsToCurrentLayout: the regions it sets
MappedRegions(sel, alr) ==
    IF sel = NoLayout \/ Len(alr) = 0 THEN << >>
    ELSE IF FindRegionSet(alr, sel) = 0 THEN << >>
    ELSE alr[FindRegionSet(alr, sel)].regions

\* mapRegionsToCurrentLayout: the canvas it sets, or leaves as it was
MappedCanvas(sel, alr, canvas) ==
    IF sel = NoLayout \/ Len(alr) = 0 THEN canvas
    ELSE IF FindRegionSet(alr, sel) = 0 THEN canvas
    ELSE [width |-> alr[FindRegionSet(alr, sel)].canvas_width,
          height |-> alr[FindRegionSet(alr, sel)].canvas_height]

\* the loadLayout effect's guards: whether it calls loadLayout()
LoadLayoutGuard(sel, lays, loading, ready, cur) ==
    /\ sel # NoLayout
    /\ ready
    /\ Len(lays) > 0
    /\ ~loading
    /\ FindLayout(lays, sel) # 0
    /\ cur # sel

\* one second, in the unit of video.currentTime (tenths of a second)
OneSecond == 10

\* a load that resumes at whatever position was captured
ResumeAlways(currentTime) == currentTime

\* loadLayout: player.load(url, currentTime > 1 ? currentTime : 0)
StartOffset(currentTime) == IF currentTime > OneSecond THEN currentTime ELSE 0

\* The commit of one callback's state changes and the effects it triggers:
\* the loadLayout effect (when one of its dependencies changed) and the
\* region-mapping effect.  The arguments are the values the callback set.
Commit(sel, lays, laysReplaced, loading, sw, err, cur, alr, canvas) ==
    LET depsChanged == sel # selectedLayout \/ laysReplaced \/ loading # isLoading
        dispatch == depsChanged /\ LoadLayoutGuard(sel, lays, loading, isPlayerReady, cur)
    IN  /\ selectedLayout' = sel
        /\ layouts' = lays
        /\ isLoading' = loading
        /\ currentLayoutRef' = cur
        /\ allLayoutRegions' = alr
        /\ isSwitching' = IF dispatch THEN TRUE ELSE sw
        /\ error' = IF dispatch THEN NoError ELSE err
        /\ layoutLoads' =
              IF dispatch
              THEN Append(layoutLoads,
                          [layout |-> sel, url |-> lays[FindLayout(lays, sel)].masterUrl,
                           startTime |-> StartOffset(videoCurrentTime)])
              ELSE layoutLoads
        /\ Len(layoutLoads') <= MaxLayoutLoads
        /\ regions' = MappedRegions(sel, alr)
        /\ canvasDimensions' = MappedCanvas(sel, alr, canvas)

\* the manifest effect's guards: whether it calls loadManifest()
LoadManifestGuard(url, ready, tok) == url # EmptyString /\ ready /\ tok # NoToken

\* loadManifest up to its first await: the pending call it leaves
StartedLoad(url, tok) == [url |-> url, token |-> tok, stage |-> "fetch",
                          fetches |-> 1, parsed |-> << >>]

\* the component after mount: the engine created (or the browser refused) and
\* the token request on its way
InitRegion ==
    /\ manifestUrlToLoad = EmptyString
    /\ layouts = << >>
    /\ selectedLayout = NoLayout
    /\ isLoading = FALSE
    /\ isSwitching = FALSE
    /\ isPlayerReady \in BOOLEAN
    /\ error = IF isPlayerReady THEN NoError ELSE "Browser not supported by Shaka Player."
    /\ regions = << >>
    /\ allLayoutRegions = << >>
    /\ canvasDimensions = DefaultCanvas
    /\ token = NoToken
    /\ showManualTokenInput = FALSE
    /\ isTokenLoading = TRUE
    /\ currentLayoutRef = NullRef
    /\ manifestLoads = << >>
    /\ layoutLoads = << >>
    /\ iteration = "part_002"
    /\ VariantMounted
    /\ StallMounted
    /\ ParserIdle
    /\ NoTimers
    /\ sessionToken = NoToken
    /\ tokenCalls = <<PendingCall(<< >>)>>

\* isBusy and isTokenReady of the render
IsBusy == isLoading \/ isSwitching
IsTokenReady == token # NoToken /\ ~isTokenLoading

\* the Load button's click: handleLoadClick, with resetAllState and the
\* manifest effect that a changed manifestUrlToLoad triggers
HandleLoadClick(input) ==
    /\ ~IsBusy /\ isPlayerReady /\ IsTokenReady
    /\ IF Trim(input) # EmptyString
       THEN LET started == /\ Trim(input) # manifestUrlToLoad
                           /\ LoadManifestGuard(Trim(input), isPlayerReady, token)
            IN  /\ manifestUrlToLoad' = Trim(input)
                /\ manifestLoads' =
                      IF started
                      THEN Append(manifestLoads, StartedLoad(Trim(input), token))
                      ELSE manifestLoads
                /\ Len(manifestLoads') <= MaxManifestLoads
                /\ Commit(NoLayout, << >>, TRUE, started \/ isLoading, isSwitching,
                          NoError, NullRef, << >>, DefaultCanvas)
       ELSE /\ error' = "Please enter an HLS URL."
            /\ UNCHANGED <<manifestUrlToLoad, layouts, selectedLayout, isLoading,
                           isSwitching, regions, allLayoutRegions, canvasDimensions,
                           currentLayoutRef, manifestLoads, layoutLoads>>
    /\ UNCHANGED <<isPlayerReady, token, showManualTokenInput, isTokenLoading>>
    /\ UNCHANGED <<variantVars, storageVars, parseVars, timerVars>>

RemoveAt(seq, i) == SubSeq(seq, 1, i - 1) \o SubSeq(seq, i + 1, Len(seq))

\* loadManifest resumed by the manifest fetch: parseManifestForLayouts throws
\* (catch, finally), or returns the layouts, and then either the region fetch
\* is awaited or the load ends with no layouts
ManifestFetchSettle(i, response) ==
    /\ i \in 1..Len(manifestLoads)
    /\ manifestLoads[i].stage = "fetch"
    /\ LET load == manifestLoads[i]
           parsed == ParseLayouts(load.url, response.body)
       IN  IF ~ResponseOk(response)
           THEN /\ manifestLoads' = RemoveAt(manifestLoads, i)
                /\ Commit(selectedLayout, layouts, FALSE, FALSE, isSwitching,
                          "Error loading manifest", currentLayoutRef,
                          allLayoutRegions, canvasDimensions)
           ELSE IF Len(parsed) > 0
           THEN /\ manifestLoads' =
                      [manifestLoads EXCEPT ![i].stage = "regions", ![i].parsed = parsed]
                /\ Commit(selectedLayout, parsed, TRUE, isLoading, isSwitching,
                          error, currentLayoutRef, allLayoutRegions, canvasDimensions)
           ELSE /\ manifestLoads' = RemoveAt(manifestLoads, i)
                /\ Commit(selectedLayout, parsed, TRUE, FALSE, isSwitching,
                          "No layouts found in manifest", currentLayoutRef,
                          allLayoutRegions, canvasDimensions)
    /\ UNCHANGED <<manifestUrlToLoad, isPlayerReady, token, showManualTokenInput,
                   isTokenLoading>>
    /\ UNCHANGED <<variantVars, storageVars, parseVars, timerVars>>

\* loadManifest resumed by fetchAllLayoutRegions, which never throws: the
\* region sets are stored when the service returned an array, the first
\* layout is selected and the load ends
\* a loadManifest that lets the failure of the region fetch end its try block
SelectedUnlessFailed(parsed, response) ==
    IF response.ok THEN parsed[1].name ELSE selectedLayout

\* loadManifest after fetchAllLayoutRegions returned, however the fetch went:
\* setSelectedLayout(parsedLayouts[0].name)
AutoSelected(parsed, response) == parsed[1].name

RegionsFetchSettle(i, response) ==
    /\ i \in 1..Len(manifestLoads)
    /\ manifestLoads[i].stage = "regions"
    /\ StreamPathParses(manifestLoads[i].url) \/ ~response.ok
    /\ LET load == manifestLoads[i]
           alr == IF response.ok /\ response.isArray
                  THEN response.data ELSE allLayoutRegions
       IN  /\ manifestLoads' = RemoveAt(manifestLoads, i)
           /\ Commit(AutoSelected(load.parsed, response), layouts, FALSE, FALSE,
                     isSwitching, error, currentLayoutRef, alr, canvasDimensions)
    /\ UNCHANGED <<manifestUrlToLoad, isPlayerReady, token, showManualTokenInput,
                   isTokenLoading>>
    /\ UNCHANGED <<variantVars, storageVars, parseVars, timerVars>>

\* the layout dropdown's change event
HandleLayoutChange(name) ==
    /\ Len(layouts) > 0
    /\ name \in Names(layouts)
    /\ IF isLoading \/ isSwitching
       THEN /\ UNCHANGED <<selectedLayout, layouts, isLoading, currentLayoutRef,
                           allLayoutRegions, isSwitching, error, layoutLoads,
                           regions, canvasDimensions>>
       ELSE /\ Commit(name, layouts, FALSE, isLoading, isSwitching, error,
                      currentLayoutRef, allLayoutRegions, canvasDimensions)
    /\ UNCHANGED <<manifestUrlToLoad, isPlayerReady, token, showManualTokenInput,
                   isTokenLoading, manifestLoads>>
    /\ UNCHANGED <<variantVars, storageVars, parseVars, timerVars>>

Area(r) == r.width * r.height

\* a reduce that keeps the newest region of the greatest area
LastLargestRegion(rs) ==
    CHOOSE i \in 1..Len(rs) :
        /\ \A j \in 1..Len(rs) : Area(rs[j]) <= Area(rs[i])
        /\ \A j \in (i + 1)..Len(rs) : Area(rs[j]) < Area(rs[i])

\* regions.reduce(...): the index of the first region of the greatest area
LargestRegion(rs) ==
    CHOOSE i \in 1..Len(rs) :
        /\ \A j \in 1..Len(rs) : Area(rs[j]) <= Area(rs[i])
        /\ \A j \in 1..(i - 1) : Area(rs[j]) < Area(rs[i])

Contains(r, pt) ==
    /\ pt.x >= r.x /\ pt.x <= r.x + r.width
    /\ pt.y >= r.y /\ pt.y <= r.y + r.height

\* clickableRegions.find(...): the index of the hit region, 0 when none is hit
HitRegion(rs, pt) ==
    LET clickable == {i \in 1..Len(rs) : i # LargestRegion(rs) /\ Contains(rs[i], pt)}
    IN  IF clickable = {} THEN 0
        ELSE CHOOSE i \in clickable : \A j \in clickable : i <= j

\* a find that compares the names as they are
FindLayoutExact(lays, name) == FindLayout(lays, name)

\* layouts.find(l => l.name.toLowerCase() === name.toLowerCase()): the index
\* of the layout found, 0 for undefined
FindLayoutIgnoringCase(lays, name) ==
    IF \E i \in 1..Len(lays) : ToLowerCase(lays[i].name) = ToLowerCase(name)
    THEN CHOOSE i \in 1..Len(lays) :
            /\ ToLowerCase(lays[i].name) = ToLowerCase(name)
            /\ \A j \in 1..(i - 1) : ToLowerCase(lays[j].name) # ToLowerCase(name)
    ELSE 0

\* the layout a click at the canvas point selects; the selection as it is when
\* the click returns early, hits nothing, throws or proposes nothing new
ClickSelection(lays, rs, sel, videoHasSize, pt) ==
    IF Len(lays) <= 1 \/ ~videoHasSize \/ Len(rs) = 0 THEN sel
    ELSE IF HitRegion(rs, pt) = 0 THEN sel
    ELSE IF rs[HitRegion(rs, pt)].parent_layout_name = Undefined THEN sel
    ELSE IF FindLayoutIgnoringCase(lays, rs[HitRegion(rs, pt)].parent_layout_name) = 0
         THEN sel
    ELSE lays[FindLayoutIgnoringCase(lays, rs[HitRegion(rs, pt)].parent_layout_name)].name

\* a click on the video container
HandleVideoClick(videoHasSize, pt) ==
    /\ isPlayerReady
    /\ Commit(ClickSelection(layouts, regions, selectedLayout, videoHasSize, pt),
              layouts, FALSE, isLoading, isSwitching, error, currentLayoutRef,
              allLayoutRegions, canvasDimensions)
    /\ UNCHANGED <<manifestUrlToLoad, isPlayerReady, token, showManualTokenInput,
                   isTokenLoading, manifestLoads>>
    /\ UNCHANGED <<variantVars, storageVars, parseVars, timerVars>>

\* loadLayout resumed by player.load: resolved (the layout becomes the active
\* one) or rejected (catch; part_000 sets no error there), then finally
LayoutLoadSettle(i, resolved) ==
    /\ i \in 1..Len(layoutLoads)
    /\ LET load == layoutLoads[i]
       IN  /\ layoutLoads' = RemoveAt(layoutLoads, i)
           /\ currentLayoutRef' = IF resolved THEN load.layout ELSE currentLayoutRef
           /\ error' = IF resolved \/ iteration = "part_000" THEN error
                       ELSE "Error loading layout"
           /\ isSwitching' = FALSE
    /\ UNCHANGED <<manifestUrlToLoad, layouts, selectedLayout, isLoading, isPlayerReady,
                   regions, allLayoutRegions, canvasDimensions, token,
                   showManualTokenInput, isTokenLoading, manifestLoads>>
    /\ UNCHANGED <<variantVars, storageVars, parseVars, timerVars>>

\* the engine's 'error' notification
PlayerError ==
    /\ isPlayerReady
    /\ error' = "Player Error"
    /\ UNCHANGED <<manifestUrlToLoad, layouts, selectedLayout, isLoading, isSwitching,
                   isPlayerReady, regions, allLayoutRegions, canvasDimensions, token,
                   showManualTokenInput, isTokenLoading, currentLayoutRef,
                   manifestLoads, layoutLoads>>
    /\ UNCHANGED <<variantVars, storageVars, parseVars, timerVars>>

\* what the token request of initToken settles with: a token, a failure that
\* is taken for a CORS failure, or another failure
TokenOutcomes == {ServerToken, "CORS_ERROR", "HTTP 401"}

\* initToken after getToken returned tok: setToken, setError(null),
\* setShowManualTokenInput(false), setIsTokenLoading(false), and the manifest
\* effect that a changed token triggers
TokenReceived(tok) ==
    LET started == /\ tok # token
                   /\ LoadManifestGuard(manifestUrlToLoad, isPlayerReady, tok)
    IN  /\ token' = tok
        /\ showManualTokenInput' = FALSE
        /\ isTokenLoading' = FALSE
        /\ manifestLoads' =
              IF started
              THEN Append(manifestLoads, StartedLoad(manifestUrlToLoad, tok))
              ELSE manifestLoads
        /\ Len(manifestLoads') <= MaxManifestLoads
        /\ Commit(selectedLayout, layouts, FALSE, started \/ isLoading, isSwitching,
                  NoError, currentLayoutRef, allLayoutRegions, canvasDimensions)

\* initToken resumed by the k-th getToken call, whose request settled
TokenInitSettle(k, outcome) ==
    /\ k \in 1..Len(tokenCalls)
    /\ tokenCalls[k].stage = "fetch"
    /\ tokenCalls' = [tokenCalls EXCEPT
                         ![k].stage = IF outcome \in Tokens THEN "returned" ELSE "thrown",
                         ![k].result = IF outcome \in Tokens THEN outcome ELSE NoToken]
    /\ IF outcome \in Tokens
       THEN /\ sessionToken' = outcome
            /\ TokenReceived(outcome)
       ELSE /\ isTokenLoading' = FALSE
            /\ error' = IF outcome = "CORS_ERROR"
                        THEN "Connection blocked by CORS policy. Please use manual token input below."
                        ELSE "Authentication failed"
            /\ showManualTokenInput' = (outcome = "CORS_ERROR" \/ showManualTokenInput)
            /\ UNCHANGED <<token, sessionToken, layouts, selectedLayout, isLoading,
                           isSwitching, regions, allLayoutRegions, canvasDimensions,
                           currentLayoutRef, manifestLoads, layoutLoads>>
    /\ UNCHANGED <<manifestUrlToLoad, isPlayerReady>>
    /\ UNCHANGED <<variantVars, parseVars, timerVars>>

\* the Manage/Hide Token button
ToggleManualTokenInput ==
    /\ IsTokenReady
    /\ showManualTokenInput' = ~showManualTokenInput
    /\ UNCHANGED <<manifestUrlToLoad, layouts, selectedLayout, isLoading, isSwitching,
                   error, isPlayerReady, regions, allLayoutRegions, canvasDimensions,
                   token, isTokenLoading, currentLayoutRef, manifestLoads, layoutLoads>>
    /\ UNCHANGED <<variantVars, storageVars, parseVars, timerVars>>

\* the Apply Token button with a non-empty manual token, and the manifest
\* effect that a changed token triggers
ApplyManualToken(manualToken) ==
    /\ showManualTokenInput
    /\ LET started == /\ manualToken # token
                      /\ LoadManifestGuard(manifestUrlToLoad, isPlayerReady, manualToken)
       IN  /\ token' = manualToken
           /\ showManualTokenInput' = FALSE
           /\ manifestLoads' =
                 IF started
                 THEN Append(manifestLoads, StartedLoad(manifestUrlToLoad, manualToken))
                 ELSE manifestLoads
           /\ Len(manifestLoads') <= MaxManifestLoads
           /\ Commit(selectedLayout, layouts, FALSE, started \/ isLoading, isSwitching,
                     NoError, currentLayoutRef, allLayoutRegions, canvasDimensions)
    /\ sessionToken' = manualToken
    /\ UNCHANGED <<manifestUrlToLoad, isPlayerReady, isTokenLoading, tokenCalls>>
    /\ UNCHANGED <<variantVars, parseVars, timerVars>>

\* the Clear Token button
ClearToken ==
    /\ showManualTokenInput
    /\ token' = NoToken
    /\ sessionToken' = NoToken
    /\ showManualTokenInput' = FALSE
    /\ UNCHANGED <<manifestUrlToLoad, layouts, selectedLayout, isLoading, isSwitching,
                   error, isPlayerReady, regions, allLayoutRegions, canvasDimensions,
                   isTokenLoading, currentLayoutRef, manifestLoads, layoutLoads,
                   tokenCalls>>
    /\ UNCHANGED <<variantVars, parseVars, timerVars>>

NextRegion ==
    \/ \E input \in UrlInputs : HandleLoadClick(input)
    \/ \E i \in 1..MaxManifestLoads, r \in FetchResponses : ManifestFetchSettle(i, r)
    \/ \E i \in 1..MaxManifestLoads, r \in RegionResponses : RegionsFetchSettle(i, r)
    \/ \E name \in Names(layouts) : HandleLayoutChange(name)
    \/ \E size \in BOOLEAN, pt \in CanvasPoints : HandleVideoClick(size, pt)
    \/ \E i \in 1..MaxLayoutLoads, resolved \in BOOLEAN : LayoutLoadSettle(i, resolved)
    \/ PlayerError
    \/ \E outcome \in TokenOutcomes : TokenInitSettle(1, outcome)
    \/ ToggleManualTokenInput
    \/ \E t \in Tokens : ApplyManualToken(t)
    \/ ClearToken

SpecRegion == InitRegion /\ [][NextRegion]_vars

(***************************************************************************)
(* Claims about the region-click iteration (SpecRegion).                   *)
(***************************************************************************)
\* a step that is an accepted load request: handleLoadClick with a non-empty URL
IsLoadRequest == \E input \in UrlInputs : Trim(input) # EmptyString /\ HandleLoadClick(input)

\* a step in which a manifest parses to no layout
IsEmptyParse ==
    \E i \in 1..MaxManifestLoads, r \in FetchResponses :
        /\ ManifestFetchSettle(i, r)
        /\ ResponseOk(r)
        /\ Len(ParseLayouts(manifestLoads[i].url, r.body)) = 0

\* a step in which the manifest fetch fails (transport, or a non-success status)
IsFailedFetch ==
    \E i \in 1..MaxManifestLoads, r \in FetchResponses :
        ManifestFetchSettle(i, r) /\ ~ResponseOk(r)

\* a step in which a load of the manifest ends by selecting its first layout
IsAutoSelect ==
    \E i \in 1..MaxManifestLoads, r \in RegionResponses : RegionsFetchSettle(i, r)

\* C1: at most one engine load of a layout switch is outstanding at any time,
\* whatever the interleaving of dropdown selections, region clicks and load
\* completions.
C1_AtMostOneLayoutLoad == Len(layoutLoads) <= 1

\* C6: in an error state, a load request with a non-empty URL (the URL of the
\* failed load included) starts a new load of the manifest.
C6_ErrorRecoverableByLoad ==
    [][(error # NoError /\ IsLoadRequest)
          => (isLoading' /\ Len(manifestLoads') = Len(manifestLoads) + 1)]_vars

\* C7: every accepted load request, whether or not its URL differs from the
\* previous one, clears layouts, regions and the selection and leaves the
\* session loading the manifest, with its fetch in flight.
C7_LoadRequestEntersLoading ==
    [][IsLoadRequest
          => /\ layouts' = << >>
             /\ regions' = << >>
             /\ allLayoutRegions' = << >>
             /\ selectedLayout' = NoLayout
             /\ isLoading'
             /\ \E i \in 1..Len(manifestLoads') :
                   /\ manifestLoads'[i].stage = "fetch"
                   /\ manifestLoads'[i].url = manifestUrlToLoad']_vars

\* C8: when a load of the manifest ends with at least one layout, the first
\* layout of the sorted list is selected and the engine load of its master URL
\* is dispatched; and when an engine load succeeds, its layout is the active
\* one and the session is neither loading nor switching.
C8_AutoSelectFirstLayout ==
    [][/\ IsAutoSelect
          => /\ Len(layouts') > 0
             /\ selectedLayout' = layouts'[1].name
             /\ \E k \in 1..Len(layoutLoads') :
                   /\ layoutLoads'[k].layout = layouts'[1].name
                   /\ layoutLoads'[k].url = layouts'[1].masterUrl
       /\ (\E i \in 1..MaxLayoutLoads :
              /\ LayoutLoadSettle(i, TRUE)
              /\ layoutLoads[i].layout = selectedLayout)
          => /\ currentLayoutRef' = selectedLayout
             /\ ~isLoading'
             /\ ~isSwitching']_vars

\* C9: when the manifest parses to zero layouts the load ends in the error
\* state with the 'no layouts found' message, no layout selected, no engine
\* load dispatched and isLoading false.
C9_EmptyParseIsError ==
    [][IsEmptyParse
          => /\ error' = "No layouts found in manifest"
             /\ selectedLayout' = NoLayout
             /\ layoutLoads' = layoutLoads
             /\ ~isLoading']_vars

\* C10: a failed manifest fetch makes the load throw after its one fetch
\* attempt, and the session is in the error state with no layouts and
\* isLoading false.
C10_FailedFetchIsError ==
    [][IsFailedFetch
          => /\ \A i \in 1..Len(manifestLoads) : manifestLoads[i].fetches = 1
             /\ Len(manifestLoads') = Len(manifestLoads) - 1
             /\ error' = "Error loading manifest"
             /\ layouts' = << >>
             /\ ~isLoading']_vars

(***************************************************************************)
(* The variant-switching component: part_001, and part_003 which adds the  *)
(* forced reload and re-creates the player whenever the URL changes.       *)
(***************************************************************************)
Variants == {"part_001", "part_003"}

\* a variant track as the engine reports it; the tracks of the model carry no
\* original ids, so extractProgramNameFromOriginalId returns nothing for them
Track(id, label, videoLabel) == [id |-> id, label |-> label, videoLabel |-> videoLabel]

TracksNone == << >>
TracksPQ == <<Track(0, "p", ""), Track(1, "p", ""), Track(2, "q", "")>>
TracksQR == <<Track(1, "q", ""), Track(2, "", "r")>>
TrackSets == {TracksNone, TracksPQ, TracksQR}

TrackIds(tracks) == {tracks[i].id : i \in 1..Len(tracks)}

\* what a player.load of loadManifest settles with
LoadOutcomes ==
    {[ok |-> FALSE, tracks |-> TracksNone, active |-> NoVariant]}
    \cup UNION {{[ok |-> TRUE, tracks |-> t, active |-> a] :
                     a \in {NoVariant} \cup TrackIds(t)} : t \in TrackSets}

\* programName of the forEach over the variant tracks
ProgramName(variant) ==
    IF variant.label # "" THEN variant.label
    ELSE IF variant.videoLabel # "" THEN variant.videoLabel
    ELSE "Program (VID: undefined, AID: undefined)"

\* programMap, in insertion order: the first variant of every program name
RECURSIVE ProgramsFrom(_, _, _)
ProgramsFrom(tracks, i, version) ==
    IF i > Len(tracks) THEN << >>
    ELSE IF \E j \in 1..(i - 1) : ProgramName(tracks[j]) = ProgramName(tracks[i])
    THEN ProgramsFrom(tracks, i + 1, version)
    ELSE <<[label |-> ProgramName(tracks[i]), variantId |-> tracks[i].id,
            manifestVersion |-> version]>> \o ProgramsFrom(tracks, i + 1, version)

AvailablePrograms(tracks, version) == ProgramsFrom(tracks, 1, version)

Labels(progs) == {progs[i].label : i \in 1..Len(progs)}

\* programs.find(p => p.label === label): the index found, 0 for undefined
FindProgram(progs, label) ==
    IF label \in Labels(progs)
    THEN CHOOSE i \in 1..Len(progs) : progs[i].label = label
    ELSE 0

\* variantTracks.find(v => v.active): the index found, 0 for undefined
FindTrack(tracks, id) ==
    IF id \in TrackIds(tracks)
    THEN CHOOSE i \in 1..Len(tracks) : tracks[i].id = id
    ELSE 0

\* activeProgramName of loadManifest
ActiveProgramName(variant) ==
    IF variant.label # "" THEN variant.label
    ELSE IF variant.videoLabel # "" THEN variant.videoLabel
    ELSE "Program (VID: undefined, AID: undefined)"

\* initialProgramLabel of loadManifest
InitialProgramLabel(progs, tracks, active) ==
    IF FindTrack(tracks, active) # 0
       /\ ActiveProgramName(tracks[FindTrack(tracks, active)]) \in Labels(progs)
    THEN ActiveProgramName(tracks[FindTrack(tracks, active)])
    ELSE progs[1].label

\* a continuation that does not compare the versions
VersionNotCompared(captured, current) == TRUE

\* whether a load that captured this version is still the current one
IsCurrentVersion(captured, current) == captured = current

\* a switch effect that starts no timer
TimeoutNotStarted == NoTimer

\* the timer the switch effect leaves after selectVariantTrack returned
TimeoutAfterDispatch == "pending"

\* a handler that tests isLoading only
LoadingOnly(sw, loading) == loading

\* the handler's own test of the flags
OperationInProgress(sw, loading) == sw \/ loading

\* the branch the switch effect takes
SwitchOutcome(sel, progs, sw, ver, tracks, active) ==
    IF sel = NoLabel \/ Len(progs) = 0 \/ ~isPlayerReady THEN "return"
    ELSE IF sw THEN "Switch already in progress"
    ELSE IF FindProgram(progs, sel) = 0 THEN "No program data found"
    ELSE IF progs[FindProgram(progs, sel)].variantId = 0 THEN "No program data found"
    ELSE IF ~IsCurrentVersion(progs[FindProgram(progs, sel)].manifestVersion, ver)
         THEN "Program data is outdated"
    ELSE IF active # NoVariant /\ active = progs[FindProgram(progs, sel)].variantId
         THEN "already active"
    ELSE IF progs[FindProgram(progs, sel)].variantId \notin TrackIds(tracks)
         THEN "Could not find variant"
    ELSE "selectVariantTrack"

\* The commit of one callback's state changes and the switch effect it
\* triggers (run: one of the effect's dependencies changed).  The arguments
\* are the values the callback set; throws: selectVariantTrack throws.
CommitSwitch(run, sel, progs, loading, sw, err, timer, ver, tracks, active, abr, throws, log) ==
    LET outcome == IF run THEN SwitchOutcome(sel, progs, sw, ver, tracks, active)
                   ELSE "return"
        dispatch == outcome = "selectVariantTrack"
    IN  /\ selectedProgramLabel' = sel
        /\ programs' = progs
        /\ isLoading' = loading
        /\ variantTracks' = tracks
        /\ activeVariant' = active
        /\ isSwitching' = IF dispatch THEN ~throws ELSE sw
        /\ error' = IF dispatch
                    THEN (IF throws THEN "Error switching layout" ELSE NoError)
                    ELSE IF outcome = "Could not find variant" THEN "Variant not found"
                    ELSE err
        /\ switchTimeoutRef' = IF dispatch
                               THEN (IF throws THEN NoTimer ELSE TimeoutAfterDispatch)
                               ELSE timer
        /\ engineAbr' = IF dispatch THEN FALSE ELSE abr
        /\ selectCalls' = IF dispatch THEN selectCalls + 1 ELSE selectCalls
        /\ selectCalls' <= MaxSelectCalls
        /\ lastLog' = Logged(IF outcome = "return" THEN log ELSE outcome)

\* the region-click component's variables while another component is mounted
RegionUnmounted ==
    /\ layouts = << >>
    /\ selectedLayout = NoLayout
    /\ regions = << >>
    /\ allLayoutRegions = << >>
    /\ canvasDimensions = DefaultCanvas
    /\ token = NoToken
    /\ showManualTokenInput = FALSE
    /\ isTokenLoading = FALSE
    /\ currentLayoutRef = NullRef
    /\ manifestLoads = << >>
    /\ layoutLoads = << >>

InitVariant ==
    /\ iteration \in Variants
    /\ manifestUrlToLoad = EmptyString
    /\ isLoading = FALSE
    /\ isSwitching = FALSE
    /\ isPlayerReady \in BOOLEAN
    /\ error = IF isPlayerReady THEN NoError ELSE "Browser not supported by Shaka Player."
    /\ VariantMounted
    /\ RegionUnmounted
    /\ StallMounted
    /\ ParserIdle
    /\ NoTimers
    /\ StorageEmpty


\* the player the initialisation effect creates when it re-runs: nothing
\* loaded, configured with the abr flag
NewPlayer(abr) ==
    /\ variantTracks' = << >>
    /\ activeVariant' = NoVariant
    /\ engineAbr' = abr

\* the Load button's click: handleLoadClick, with the effects that a changed
\* manifestUrlToLoad triggers (in part_003 the initialisation effect, through
\* forceReload; in both the manifest effect, that is loadManifest up to its
\* await of player.load, which unloads what the player had)
HandleLoadClickV(input, throws) ==
    /\ iteration \in Variants
    /\ ~isLoading /\ ~isSwitching /\ isPlayerReady
    /\ IF Trim(input) = EmptyString
       THEN /\ error' = "Please enter an HLS URL."
            /\ lastLog' = Logged("Load clicked with empty URL.")
            /\ UNCHANGED <<manifestUrlToLoad, programs, selectedProgramLabel, isLoading,
                           isSwitching, switchTimeoutRef, manifestVersionRef,
                           engineLoads, variantTracks, activeVariant, engineAbr,
                           selectCalls, loadRequests>>
       ELSE /\ loadRequests' = loadRequests + 1
            /\ loadRequests' <= MaxVersion
            /\ manifestUrlToLoad' = Trim(input)
            /\ IF Trim(input) # manifestUrlToLoad
               THEN /\ manifestVersionRef' = manifestVersionRef + 1
                    /\ engineLoads' =
                          Append(engineLoads, [version |-> manifestVersionRef + 1,
                                               url |-> Trim(input)])
                    /\ Len(engineLoads') <= MaxEngineLoads
                    /\ CommitSwitch(TRUE, NoLabel, << >>, TRUE, FALSE, NoError,
                                    NoTimer, manifestVersionRef + 1, << >>, NoVariant,
                                    IF iteration = "part_003" THEN abrEnabled
                                    ELSE engineAbr,
                                    throws, "Attempting to load manifest")
               ELSE UNCHANGED <<programs, selectedProgramLabel, isLoading, isSwitching,
                                error, switchTimeoutRef, manifestVersionRef,
                                engineLoads, variantTracks, activeVariant, engineAbr,
                                selectCalls, lastLog>>
    /\ UNCHANGED <<isPlayerReady, iteration, abrEnabled, reloads, reloadPrompt,
                   regionOnlyVars, stallVars,
                   storageVars, parseVars, timerVars>>

\* loadManifest resumed by player.load: discarded when a newer load has
\* started; otherwise the programs are set and the initial one selected (try),
\* or the error is set (catch), and isLoading is reset (finally)
LoadManifestSettle(i, outcome, throws) ==
    /\ iteration \in Variants
    /\ i \in 1..Len(engineLoads)
    /\ engineLoads' = RemoveAt(engineLoads, i)
    /\ LET load == engineLoads[i]
           progs == AvailablePrograms(outcome.tracks, load.version)
       IN  IF ~IsCurrentVersion(load.version, manifestVersionRef)
           THEN /\ lastLog' = IF outcome.ok THEN Logged("Manifest load cancelled") ELSE lastLog
                /\ UNCHANGED <<programs, selectedProgramLabel, isLoading, isSwitching,
                               error, switchTimeoutRef, variantTracks, activeVariant,
                               engineAbr, selectCalls>>
           ELSE IF outcome.ok
           THEN CommitSwitch(TRUE,
                             IF Len(progs) > 0
                             THEN InitialProgramLabel(progs, outcome.tracks, outcome.active)
                             ELSE selectedProgramLabel,
                             progs, FALSE, isSwitching,
                             IF Len(progs) > 0 THEN error
                             ELSE "No distinct programs found.",
                             switchTimeoutRef, manifestVersionRef, outcome.tracks,
                             outcome.active, engineAbr, throws,
                             "Manifest loaded successfully!")
           ELSE CommitSwitch(FALSE, selectedProgramLabel, programs, FALSE, isSwitching,
                             "Error: Failed to load manifest.", switchTimeoutRef,
                             manifestVersionRef, << >>, NoVariant, engineAbr, throws,
                             "ERROR loading manifest")
    /\ UNCHANGED <<manifestUrlToLoad, isPlayerReady, iteration, abrEnabled,
                   manifestVersionRef, reloads, reloadPrompt, loadRequests,
                   regionOnlyVars, stallVars,
                   storageVars, parseVars, timerVars>>

\* the program dropdown's change event; the handler tests the flags itself
HandleProgramChange(label, throws) ==
    /\ iteration \in Variants
    /\ label \in Labels(programs)
    /\ IF OperationInProgress(isSwitching, isLoading)
       THEN /\ lastLog' = Logged("operation in progress")
            /\ UNCHANGED <<programs, selectedProgramLabel, isLoading, isSwitching,
                           error, switchTimeoutRef, variantTracks, activeVariant,
                           engineAbr, selectCalls>>
       ELSE CommitSwitch(label # selectedProgramLabel, label, programs, isLoading,
                         isSwitching, error, switchTimeoutRef, manifestVersionRef,
                         variantTracks, activeVariant, engineAbr, throws,
                         "User selected program")
    /\ UNCHANGED <<manifestUrlToLoad, isPlayerReady, iteration, abrEnabled,
                   manifestVersionRef, engineLoads, reloads, reloadPrompt,
                   loadRequests, regionOnlyVars, stallVars,
                   storageVars, parseVars, timerVars>>

\* a listener that leaves the timer of the switch alone
TimeoutKept(timer) == timer

\* clearSwitchTimeout: the switchTimeoutRef it leaves
ClearSwitchTimeout(timer) == NoTimer

\* the engine's 'variantchanged' notification
VariantChanged(newActive) ==
    /\ iteration \in Variants
    /\ isPlayerReady
    /\ newActive \in TrackIds(variantTracks)
    /\ activeVariant' = newActive
    /\ isSwitching' = FALSE
    /\ switchTimeoutRef' = ClearSwitchTimeout(switchTimeoutRef)
    /\ engineAbr' = IF abrEnabled THEN TRUE ELSE engineAbr
    /\ lastLog' = Logged("EVENT: variantchanged")
    /\ UNCHANGED <<manifestUrlToLoad, isLoading, error, isPlayerReady, iteration,
                   programs, selectedProgramLabel, abrEnabled, manifestVersionRef,
                   engineLoads, variantTracks, selectCalls, reloads, reloadPrompt,
                   loadRequests, regionOnlyVars, stallVars,
                   storageVars, parseVars, timerVars>>

ErrorCategories == {"NETWORK", "MEDIA"}

\* the engine's 'error' notification; part_003 schedules the reload prompt
\* for a network error
PlayerErrorV(category) ==
    /\ iteration \in Variants
    /\ isPlayerReady
    /\ error' = "Player Error"
    /\ isLoading' = FALSE
    /\ isSwitching' = FALSE
    /\ switchTimeoutRef' = ClearSwitchTimeout(switchTimeoutRef)
    /\ lastLog' = Logged("PLAYER ERROR")
    /\ IF iteration = "part_003" /\ category = "NETWORK"
       THEN /\ reloadPrompt = NoPrompt
            /\ reloadPrompt' = manifestUrlToLoad
       ELSE UNCHANGED reloadPrompt
    /\ UNCHANGED <<manifestUrlToLoad, isPlayerReady, iteration, programs,
                   selectedProgramLabel, abrEnabled, manifestVersionRef, engineLoads,
                   variantTracks, activeVariant, engineAbr, selectCalls, reloads,
                   loadRequests, regionOnlyVars, stallVars,
                   storageVars, parseVars, timerVars>>

\* a forceReload call is pending under the number k
ReloadPending(k) == \E i \in 1..Len(reloads) : reloads[i].id = k

\* the number a new forceReload call is told apart by: the least one no
\* pending call has
FreeReloadId ==
    IF \E k \in 1..MaxReloads : ~ReloadPending(k)
    THEN CHOOSE k \in 1..MaxReloads :
            ~ReloadPending(k) /\ \A j \in 1..(k - 1) : ReloadPending(j)
    ELSE 0

\* forceReload up to its await of player.unload
StartForceReload(url) ==
    IF url = EmptyString
    THEN UNCHANGED <<error, lastLog, reloads>>
    ELSE /\ error' = NoError
         /\ lastLog' = Logged("Force reloading stream")
         /\ reloads' = Append(reloads, [url |-> url, stage |-> "unload", loads |-> 0,
                                      id |-> FreeReloadId])
         /\ Len(reloads') <= MaxReloads

\* the Force Reload button of part_003
ForceReload ==
    /\ iteration = "part_003"
    /\ ~isLoading /\ ~isSwitching /\ manifestUrlToLoad # EmptyString
    /\ StartForceReload(manifestUrlToLoad)
    /\ UNCHANGED <<manifestUrlToLoad, isLoading, isSwitching, isPlayerReady, iteration,
                   programs, selectedProgramLabel, abrEnabled, switchTimeoutRef,
                   manifestVersionRef, engineLoads, variantTracks, activeVariant,
                   engineAbr, selectCalls, reloadPrompt, loadRequests, regionOnlyVars, stallVars,
                   storageVars, parseVars, timerVars>>

\* the network-error prompt of part_003, one second after the error
ConfirmReload(accepted) ==
    /\ iteration = "part_003"
    /\ reloadPrompt # NoPrompt
    /\ reloadPrompt' = NoPrompt
    /\ IF accepted THEN StartForceReload(reloadPrompt)
       ELSE UNCHANGED <<error, lastLog, reloads>>
    /\ UNCHANGED <<manifestUrlToLoad, isLoading, isSwitching, isPlayerReady, iteration,
                   programs, selectedProgramLabel, abrEnabled, switchTimeoutRef,
                   manifestVersionRef, engineLoads, variantTracks, activeVariant,
                   engineAbr, selectCalls, loadRequests, regionOnlyVars, stallVars,
                   storageVars, parseVars, timerVars>>

\* a reload that takes its fallback at every settlement of the first attempt
FallsBackAlways(stage, ok) == stage \in {"unload", "load"}

\* the try block of forceReload throws: player.unload or the load of the
\* cache-busted URL rejects, and the catch block starts the fallback load
FallsBack(stage, ok) == stage \in {"unload", "load"} /\ ~ok

\* forceReload resumed by player.unload, by the load of the cache-busted URL
\* or by the fallback load of the original URL
ForceReloadSettle(i, outcome) ==
    /\ iteration = "part_003"
    /\ i \in 1..Len(reloads)
    /\ LET stage == reloads[i].stage
       IN  /\ reloads' =
                 IF stage = "unload" /\ outcome.ok
                 THEN [reloads EXCEPT ![i].stage = "load", ![i].loads = @ + 1]
                 ELSE IF FallsBack(stage, outcome.ok)
                 THEN [reloads EXCEPT ![i].stage = "fallback", ![i].loads = @ + 1]
                 ELSE RemoveAt(reloads, i)
           /\ error' = IF stage \in {"unload", "load"} /\ ~outcome.ok
                       THEN "Reload failed" ELSE error
           /\ lastLog' = Logged(IF stage = "unload" /\ outcome.ok
                                THEN "Reloading with cache-busted URL"
                                ELSE IF FallsBack(stage, outcome.ok)
                                THEN "Trying fallback load with original URL"
                                ELSE IF stage = "load" THEN "Stream reloaded successfully"
                                ELSE IF outcome.ok THEN "Fallback load successful"
                                ELSE "Fallback load also failed")
           /\ variantTracks' = IF stage = "unload" THEN << >> ELSE outcome.tracks
           /\ activeVariant' = IF stage = "unload" THEN NoVariant ELSE outcome.active
    /\ UNCHANGED <<manifestUrlToLoad, isLoading, isSwitching, isPlayerReady, iteration,
                   programs, selectedProgramLabel, abrEnabled, switchTimeoutRef,
                   manifestVersionRef, engineLoads, engineAbr, selectCalls,
                   reloadPrompt, loadRequests, regionOnlyVars, stallVars,
                   storageVars, parseVars, timerVars>>

\* the 5 s timer of the switch fires
SwitchTimeout ==
    /\ iteration \in Variants
    /\ switchTimeoutRef # NoTimer
    /\ isSwitching' = FALSE
    /\ switchTimeoutRef' = NoTimer
    /\ lastLog' = Logged("Switch timeout reached")
    /\ UNCHANGED <<manifestUrlToLoad, isLoading, error, isPlayerReady, iteration,
                   programs, selectedProgramLabel, abrEnabled, manifestVersionRef,
                   engineLoads, variantTracks, activeVariant, engineAbr, selectCalls,
                   reloads, reloadPrompt, loadRequests, regionOnlyVars, stallVars,
                   storageVars, parseVars, timerVars>>

\* the ABR checkbox: the flag, the configure call on the current player, and
\* the initialisation effect that the changed flag re-runs (cleanup, then a
\* new player)
ToggleAbr ==
    /\ iteration \in Variants
    /\ Len(programs) > 0
    /\ ~isLoading /\ ~isSwitching
    /\ abrEnabled' = ~abrEnabled
    /\ switchTimeoutRef' = NoTimer
    /\ NewPlayer(~abrEnabled)
    /\ lastLog' = Logged("Shaka Player is ready")
    /\ UNCHANGED <<manifestUrlToLoad, isLoading, isSwitching, error, isPlayerReady,
                   iteration, programs, selectedProgramLabel, manifestVersionRef,
                   engineLoads, selectCalls, reloads, reloadPrompt, loadRequests,
                   regionOnlyVars, stallVars,
                   storageVars, parseVars, timerVars>>

NextVariant ==
    \/ \E input \in UrlInputs, throws \in BOOLEAN : HandleLoadClickV(input, throws)
    \/ \E i \in 1..MaxEngineLoads, outcome \in LoadOutcomes, throws \in BOOLEAN :
          LoadManifestSettle(i, outcome, throws)
    \/ \E label \in Labels(programs), throws \in BOOLEAN : HandleProgramChange(label, throws)
    \/ \E id \in TrackIds(variantTracks) : VariantChanged(id)
    \/ \E category \in ErrorCategories : PlayerErrorV(category)
    \/ ForceReload
    \/ \E accepted \in BOOLEAN : ConfirmReload(accepted)
    \/ \E i \in 1..MaxReloads, outcome \in LoadOutcomes : ForceReloadSettle(i, outcome)
    \/ SwitchTimeout
    \/ ToggleAbr

SpecVariant == InitVariant /\ [][NextVariant]_vars

\* the timer of a scheduled switch timeout fires in the end
SpecVariantFair == SpecVariant /\ WF_vars(SwitchTimeout)

\* forceReload resumed for the call numbered k
ReloadResumes(k) ==
    \E i \in 1..MaxReloads, outcome \in LoadOutcomes :
        /\ i <= Len(reloads)
        /\ reloads[i].id = k
        /\ ForceReloadSettle(i, outcome)

\* part_003's load, error and reload paths: the handlers that start, resume
\* and surround forceReload
NextReload ==
    \/ \E input \in UrlInputs, throws \in BOOLEAN : HandleLoadClickV(input, throws)
    \/ \E i \in 1..MaxEngineLoads, outcome \in LoadOutcomes, throws \in BOOLEAN :
          LoadManifestSettle(i, outcome, throws)
    \/ \E category \in ErrorCategories : PlayerErrorV(category)
    \/ ForceReload
    \/ \E accepted \in BOOLEAN : ConfirmReload(accepted)
    \/ \E i \in 1..MaxReloads, outcome \in LoadOutcomes : ForceReloadSettle(i, outcome)

\* part_003 after mount
InitReload ==
    /\ iteration = "part_003"
    /\ manifestUrlToLoad = EmptyString
    /\ isLoading = FALSE
    /\ isSwitching = FALSE
    /\ isPlayerReady \in BOOLEAN
    /\ error = IF isPlayerReady THEN NoError ELSE "Browser not supported by Shaka Player."
    /\ VariantMounted
    /\ RegionUnmounted
    /\ StallMounted
    /\ ParserIdle
    /\ NoTimers
    /\ StorageEmpty

\* every promise of the engine that a forceReload call awaits settles
SpecReloadFair ==
    /\ InitReload
    /\ [][NextReload]_vars
    /\ \A k \in 1..MaxReloads : WF_vars(ReloadResumes(k))


(***************************************************************************)
(* Claims about the variant-switching component (SpecVariant).             *)
(***************************************************************************)
\* a step that is a selection request made while a switch is outstanding
IsSelectionWhileSwitching ==
    /\ isSwitching
    /\ \E label \in Labels(programs), throws \in BOOLEAN : HandleProgramChange(label, throws)

\* a step in which a load of loadManifest settles after the version advanced
IsStaleSettle ==
    \E i \in 1..Len(engineLoads), outcome \in LoadOutcomes, throws \in BOOLEAN :
        /\ LoadManifestSettle(i, outcome, throws)
        /\ engineLoads[i].version # manifestVersionRef

\* C2: a selection request that arrives while a switch is outstanding is
\* ignored and logged: no selectVariantTrack call, nothing queued, the
\* selection and the running switch as they were; and selectVariantTrack is
\* called once at a time, never while a switch is outstanding.
C2_SecondSelectionIgnored ==
    [][/\ IsSelectionWhileSwitching
          => /\ selectedProgramLabel' = selectedProgramLabel
             /\ selectCalls' = selectCalls
             /\ isSwitching'
             /\ lastLog' = "operation in progress"
             /\ UNCHANGED <<programs, switchTimeoutRef, error, isLoading, engineLoads,
                            manifestVersionRef, variantTracks, activeVariant>>
       /\ selectCalls' # selectCalls
          => ~isSwitching /\ selectCalls' = selectCalls + 1]_vars

\* a second request was refused while the one dispatched switch is outstanding
C2_Witness ==
    /\ isSwitching
    /\ selectCalls = 1
    /\ switchTimeoutRef # NoTimer
    /\ lastLog = "operation in progress"

\* C3: a dispatched switch never stays outstanding forever: without any
\* notification from the engine the switch timeout resets isSwitching.
C3_SwitchingEnds == isSwitching ~> ~isSwitching

\* the timeout of a dispatched switch has fired and ended the switch
C3_Witness ==
    /\ selectCalls > 0
    /\ ~isSwitching
    /\ switchTimeoutRef = NoTimer
    /\ lastLog = "Switch timeout reached"

\* C4: a load of loadManifest that settles after the version advanced changes
\* none of programs, selectedProgramLabel, error and isLoading; and a switch
\* is dispatched only for program data of the current version.
C4_StaleLoadDiscarded ==
    [][/\ IsStaleSettle
          => UNCHANGED <<programs, selectedProgramLabel, error, isLoading>>
       /\ selectCalls' # selectCalls
          => /\ FindProgram(programs', selectedProgramLabel') # 0
             /\ programs'[FindProgram(programs', selectedProgramLabel')].manifestVersion
                   = manifestVersionRef']_vars

\* a load of an earlier version resolved and was discarded while the load of
\* the current version is under way
C4_Witness ==
    /\ manifestVersionRef = 2
    /\ isLoading
    /\ programs = << >>
    /\ lastLog = "Manifest load cancelled"

\* C5: every accepted load request increases manifestVersionRef by exactly
\* one, and nothing else changes it.
C5_VersionCountsLoadRequests ==
    [][/\ loadRequests' = loadRequests + 1 => manifestVersionRef' = manifestVersionRef + 1
       /\ loadRequests' = loadRequests => manifestVersionRef' = manifestVersionRef]_vars


\* a step in which the engine load of a layout switch fails
IsFailedLayoutLoad == \E i \in 1..MaxLayoutLoads : LayoutLoadSettle(i, FALSE)

\* C11: when the engine load of a layout switch fails the session is in the
\* error state with isSwitching false, layouts, allLayoutRegions and
\* currentLayoutRef are as they were, and once nothing is in flight some
\* selection of the dropdown dispatches a new engine load.
C11_FailedSwitchKeepsLayouts ==
    [][IsFailedLayoutLoad
          => /\ error' = "Error loading layout"
             /\ ~isSwitching'
             /\ UNCHANGED <<layouts, allLayoutRegions, currentLayoutRef>>
             /\ (~isLoading' /\ Len(layoutLoads') = 0)
                   => \E name \in Names(layouts') :
                         /\ name # selectedLayout'
                         /\ LoadLayoutGuard(name, layouts', isLoading', isPlayerReady',
                                            currentLayoutRef')]_vars


\* a step that is an 'error' notification of the engine
IsPlayerError == \E category \in ErrorCategories : PlayerErrorV(category)

\* a step of part_003 in which the initialisation effect's cleanup runs: the
\* ABR flag or (through forceReload) manifestUrlToLoad changed
IsTeardown ==
    /\ iteration = "part_003"
    /\ \/ ToggleAbr
       \/ \E input \in UrlInputs, throws \in BOOLEAN :
             /\ HandleLoadClickV(input, throws)
             /\ Trim(input) # EmptyString
             /\ Trim(input) # manifestUrlToLoad

\* C12: an 'error' notification of the engine, in whatever state it arrives,
\* leaves the session with the error set, isLoading and isSwitching false and
\* no switch timeout pending.
C12_PlayerErrorClearsFlags ==
    [][IsPlayerError
          => /\ error' = "Player Error"
             /\ ~isLoading'
             /\ ~isSwitching'
             /\ switchTimeoutRef' = NoTimer]_vars

\* the notification arrived while the load of the current manifest version
\* was in flight and reset isLoading
C12_Witness ==
    /\ error = "Player Error"
    /\ ~isLoading /\ ~isSwitching
    /\ switchTimeoutRef = NoTimer
    /\ \E i \in 1..Len(engineLoads) : engineLoads[i].version = manifestVersionRef

\* C13: the cleanup of the initialisation effect of part_003 leaves no timer
\* of the session scheduled that can still act on the session: neither the
\* switch timeout nor a network-error prompt whose forceReload has a URL.
C13_TeardownClearsTimers ==
    [][IsTeardown
          => /\ switchTimeoutRef' = NoTimer
             /\ reloadPrompt' \in {NoPrompt, EmptyString}]_vars


\* C14: dispatching a manual switch disables the engine's ABR setting, and
\* when the switch ends, by whichever path, the setting equals abrEnabled
\* again.
C14_AbrRestoredAfterSwitch ==
    [][/\ selectCalls' # selectCalls => ~engineAbr'
       /\ (isSwitching /\ ~isSwitching') => engineAbr' = abrEnabled']_vars


\* ---------------------------------------------------------------------
\* The stall watchdog of part_003: setupStallDetection's interval callback,
\* the engine's 'streaming' and 'buffering' listeners, and the cool-down
\* timers the recoveries start.
\* ---------------------------------------------------------------------

MaxRecoveries == 2
MaxContentLoads == 1
MaxPosition == 20

\* if (stallCountRef.current >= 3)
StallThreshold == 3
\* setTimeout(..., 3000) against setInterval(..., 1000): the cool-down is
\* three sample periods long
CooldownSamples == 3
\* video.currentTime = currentTime + 0.1
Nudge == 1
\* video.currentTime = seekRange.end - 2
LiveEdgeOffset == 20
\* if (seekRange.end > currentTime + 10)
LiveEdgeMargin == 100
\* the position gained by one second of playback
PlaybackStep == 10
\* the live edges player.seekRange() may report
SeekRangeEnds == {50, 200}

\* everything but the watchdog's variables
sessionVars ==
    <<regionVars, iteration, programs, selectedProgramLabel, abrEnabled,
      switchTimeoutRef, manifestVersionRef, engineLoads, variantTracks,
      activeVariant, engineAbr, selectCalls, lastLog, reloads, reloadPrompt,
      loadRequests, storageVars, parseVars, timerVars>>

\* part_003 mounted with a player, the interval running, nothing loaded yet
InitStall ==
    /\ iteration = "part_003"
    /\ manifestUrlToLoad = EmptyString
    /\ isLoading = FALSE
    /\ isSwitching = FALSE
    /\ isPlayerReady = TRUE
    /\ error = NoError
    /\ VariantMounted
    /\ RegionUnmounted
    /\ StallMounted
    /\ ParserIdle
    /\ NoTimers
    /\ StorageEmpty

\* !video.paused && currentTime === lastTimeUpdateRef.current
IsMiss(paused, currentTime, lastTime) == ~paused /\ currentTime = lastTime

ThresholdNever(count) == FALSE

\* stallCountRef.current += 1; if (stallCountRef.current >= 3)
ReachesThreshold(count) == count + 1 >= StallThreshold

\* the recovery branch assigns video.currentTime
RecoverySeeks(live, end, currentTime) ==
    IF live THEN end > currentTime + LiveEdgeMargin ELSE TRUE

\* the position the recovery branch leaves in video.currentTime
RecoveryPosition(live, end, currentTime) ==
    IF live
    THEN IF end > currentTime + LiveEdgeMargin THEN end - LiveEdgeOffset ELSE currentTime
    ELSE currentTime + Nudge

\* one more sample period has passed for every pending cool-down timer
Aged(timers) ==
    [i \in 1..Len(timers) |->
        [timers[i] EXCEPT !.age = IF @ < CooldownSamples THEN @ + 1 ELSE @]]

\* the interval callback: one sample
Sample ==
    /\ iteration = "part_003"
    /\ isPlayerReady
    /\ IF IsMiss(videoPaused, videoCurrentTime, lastTimeUpdateRef)
       THEN IF ReachesThreshold(stallCountRef)
            THEN /\ recoveries < MaxRecoveries
                 /\ playbackStalled' = TRUE
                 /\ videoCurrentTime' = RecoveryPosition(isLive, seekRangeEnd, videoCurrentTime)
                 /\ seeks' = IF RecoverySeeks(isLive, seekRangeEnd, videoCurrentTime)
                             THEN seeks + 1 ELSE seeks
                 /\ stallCountRef' = 0
                 /\ recoveries' = recoveries + 1
                 /\ stalledBy' = recoveries + 1
                 /\ cooldownTimers' =
                       Append(Aged(cooldownTimers), [id |-> recoveries + 1, age |-> 0])
            ELSE /\ stallCountRef' = stallCountRef + 1
                 /\ cooldownTimers' = Aged(cooldownTimers)
                 /\ UNCHANGED <<playbackStalled, videoCurrentTime, seeks, recoveries,
                                stalledBy>>
       ELSE /\ stallCountRef' = 0
            /\ playbackStalled' = FALSE
            /\ stalledBy' = 0
            /\ cooldownTimers' = Aged(cooldownTimers)
            /\ UNCHANGED <<videoCurrentTime, seeks, recoveries>>
    /\ lastTimeUpdateRef' = videoCurrentTime
    /\ lastPlaybackTime' = videoCurrentTime
    /\ missRun' = IF IsMiss(videoPaused, videoCurrentTime, lastTimeUpdateRef)
                  THEN (IF missRun < StallThreshold THEN missRun + 1 ELSE missRun)
                  ELSE 0
    /\ UNCHANGED <<videoPaused, engineBuffering, isLive, seekRangeEnd, contentLoads>>
    /\ UNCHANGED sessionVars

\* the oldest cool-down timer fires: setPlaybackStalled(false)
CooldownFire ==
    /\ iteration = "part_003"
    /\ Len(cooldownTimers) > 0
    /\ cooldownTimers[1].age = CooldownSamples
    /\ playbackStalled' = FALSE
    /\ stalledBy' = 0
    /\ cooldownTimers' = Tail(cooldownTimers)
    /\ UNCHANGED <<stallCountRef, lastTimeUpdateRef, lastPlaybackTime, videoCurrentTime,
                   videoPaused, engineBuffering, isLive, seekRangeEnd, recoveries,
                   seeks, missRun, contentLoads>>
    /\ UNCHANGED sessionVars

\* the engine's 'streaming' event
Streaming ==
    /\ iteration = "part_003"
    /\ contentLoads > 0
    /\ stallCountRef' = 0
    /\ UNCHANGED <<lastTimeUpdateRef, playbackStalled, lastPlaybackTime,
                   videoCurrentTime, videoPaused, engineBuffering, isLive, seekRangeEnd,
                   cooldownTimers, recoveries, seeks, stalledBy, missRun, contentLoads>>
    /\ UNCHANGED sessionVars

\* the engine's 'buffering' event with event.buffering = buffering
Buffering(buffering) ==
    /\ iteration = "part_003"
    /\ contentLoads > 0
    /\ buffering # engineBuffering
    /\ engineBuffering' = buffering
    /\ stallCountRef' = IF buffering THEN 0 ELSE stallCountRef
    /\ UNCHANGED <<lastTimeUpdateRef, playbackStalled, lastPlaybackTime,
                   videoCurrentTime, videoPaused, isLive, seekRangeEnd, cooldownTimers,
                   recoveries, seeks, stalledBy, missRun, contentLoads>>
    /\ UNCHANGED sessionVars

\* a second of playback: the position advances while the video element plays
\* and the engine is not buffering
Advance ==
    /\ iteration = "part_003"
    /\ contentLoads > 0
    /\ ~videoPaused
    /\ ~engineBuffering
    /\ videoCurrentTime + PlaybackStep <= MaxPosition
    /\ videoCurrentTime' = videoCurrentTime + PlaybackStep
    /\ UNCHANGED <<stallCountRef, lastTimeUpdateRef, playbackStalled, lastPlaybackTime,
                   videoPaused, engineBuffering, isLive, seekRangeEnd, cooldownTimers,
                   recoveries, seeks, stalledBy, missRun, contentLoads>>
    /\ UNCHANGED sessionVars

\* the play/pause control of the video element
TogglePause ==
    /\ iteration = "part_003"
    /\ contentLoads > 0
    /\ videoPaused' = ~videoPaused
    /\ UNCHANGED <<stallCountRef, lastTimeUpdateRef, playbackStalled, lastPlaybackTime,
                   videoCurrentTime, engineBuffering, isLive, seekRangeEnd,
                   cooldownTimers, recoveries, seeks, stalledBy, missRun, contentLoads>>
    /\ UNCHANGED sessionVars

\* loadManifest as the watchdog sees it: setPlaybackStalled(false), and the
\* content the engine then plays from its start (autoPlay may be refused)
LoadContent(live, end, paused) ==
    /\ iteration = "part_003"
    /\ isPlayerReady
    /\ contentLoads < MaxContentLoads
    /\ contentLoads' = contentLoads + 1
    /\ playbackStalled' = FALSE
    /\ stalledBy' = 0
    /\ isLive' = live
    /\ seekRangeEnd' = IF live THEN end ELSE 0
    /\ videoCurrentTime' = 0
    /\ videoPaused' = paused
    /\ engineBuffering' = FALSE
    /\ UNCHANGED <<stallCountRef, lastTimeUpdateRef, lastPlaybackTime, cooldownTimers,
                   recoveries, seeks, missRun>>
    /\ UNCHANGED sessionVars

NextStall ==
    \/ Sample
    \/ CooldownFire
    \/ Streaming
    \/ \E buffering \in BOOLEAN : Buffering(buffering)
    \/ Advance
    \/ TogglePause
    \/ \E live \in BOOLEAN, end \in SeekRangeEnds, paused \in BOOLEAN :
          LoadContent(live, end, paused)

SpecStall == InitStall /\ [][NextStall]_vars


\* a sample that takes the recovery branch
IsRecovery == Sample /\ recoveries' = recoveries + 1

\* C15: a sample performs a recovery exactly when it is the third miss in a
\* row counted by the miss counter (position unchanged, not paused, counter at
\* two before it); the three newest samples were then all misses; the
\* recovery, a sample that sees progress and a buffering-started notification
\* each leave the counter at zero; after every step the counter is in 0..2.
C15_RecoveryAtThirdMiss ==
    [][/\ Sample
          => /\ IsRecovery
                  <=> /\ IsMiss(videoPaused, videoCurrentTime, lastTimeUpdateRef)
                      /\ stallCountRef = StallThreshold - 1
             /\ IsRecovery => stallCountRef' = 0 /\ missRun' = StallThreshold
             /\ videoCurrentTime # lastTimeUpdateRef => stallCountRef' = 0
       /\ Buffering(TRUE) => stallCountRef' = 0
       /\ stallCountRef' \in 0..(StallThreshold - 1)]_vars

\* a recovery has just been performed after three misses in a row
C15_Witness ==
    /\ recoveries = 1
    /\ missRun = StallThreshold
    /\ stallCountRef = 0
    /\ playbackStalled
    /\ stalledBy = 1


\* C16: a sample taken while the engine is buffering does not increment the
\* miss counter and issues no recovery seek.
C16_NoCountWhileBuffering ==
    [][(Sample /\ engineBuffering)
          => /\ stallCountRef' <= stallCountRef
             /\ seeks' = seeks
             /\ recoveries' = recoveries]_vars


\* C17: a sample that reaches the threshold performs exactly one seek, to the
\* live edge less two seconds for live content and a tenth of a second ahead
\* for bounded content, and leaves the counter at zero.
C17_OneSeekPerRecovery ==
    [][IsRecovery
          => /\ seeks' = seeks + 1
             /\ videoCurrentTime' = IF isLive THEN seekRangeEnd - LiveEdgeOffset
                                              ELSE videoCurrentTime + Nudge
             /\ stallCountRef' = 0]_vars


\* C18: a recovery raises playbackStalled, and a raised flag is lowered only
\* by the cool-down timer of the recovery that raised it, by a sample that
\* sees no miss, or by the start of a new load; a timer started by an earlier
\* recovery never lowers the flag a later recovery raised.
C18_FlagClearedByOwnCooldown ==
    [][/\ IsRecovery => playbackStalled'
       /\ (playbackStalled /\ ~playbackStalled')
             => \/ CooldownFire /\ cooldownTimers[1].id = stalledBy
                \/ Sample /\ ~IsMiss(videoPaused, videoCurrentTime, lastTimeUpdateRef)
                \/ \E live \in BOOLEAN, end \in SeekRangeEnds, paused \in BOOLEAN :
                      LoadContent(live, end, paused)]_vars


\* C19: forceReload goes from the unload to the load of the cache-busted URL;
\* it starts the fallback load exactly when the unload or that load fails;
\* the settlement of the fallback ends the call, a failure being logged; a
\* call makes at most two engine loads; every call ends.
C19_ReloadFallsBackOnce ==
    /\ [][reloads' # reloads
             => \A i \in 1..MaxReloads, outcome \in LoadOutcomes :
             (i <= Len(reloads) /\ ForceReloadSettle(i, outcome))
                => LET stage == reloads[i].stage
                       stays == Len(reloads') = Len(reloads)
                   IN  /\ (stage = "unload" /\ outcome.ok)
                             => stays /\ reloads'[i].stage = "load"
                       /\ stage \in {"unload", "load"}
                             => ((stays /\ reloads'[i].stage = "fallback") <=> ~outcome.ok)
                       /\ stage = "fallback"
                             => /\ Len(reloads') = Len(reloads) - 1
                                /\ ~outcome.ok => lastLog' = "Fallback load also failed"]_vars
    /\ [](\A i \in 1..Len(reloads) :
             /\ reloads[i].loads <= 2
             /\ reloads[i].stage = "unload" => reloads[i].loads = 0)
    /\ \A k \in 1..MaxReloads : ReloadPending(k) ~> ~ReloadPending(k)

\* the load of the cache-busted URL has failed and the fallback load of the
\* original URL, the call's second load, is on its way
C19_Witness ==
    /\ Len(reloads) > 0
    /\ reloads[1].stage = "fallback"
    /\ reloads[1].loads = 2
    /\ error = "Reload failed"


\* ---------------------------------------------------------------------
\* handleVideoClick of part_002 as a function of the registry, the region
\* sets and the click: the session starts with a manifest loaded, a layout
\* active and the region service's answer mapped.
\* ---------------------------------------------------------------------

WideName == <<"w", "i", "d", "e">>

\* the array parseManifestForLayouts returns for layouts of these names
Registry(names) ==
    [i \in 1..Len(names) |->
        [name |-> names[i], displayName |-> names[i],
         masterUrl |-> MasterUrl(HlsUrlA, names[i])]]

\* registries, each in the order the parser's sort leaves
ClickRegistries ==
    {Registry(<< <<"a">> >>),
     Registry(<< <<"a">>, WideName >>),
     Registry(<< <<"a">>, <<"b">>, WideName >>)}

\* regions of layout 'wide': the full canvas and a quarter that leads to 'a'
WideRegions ==
    <<Region(0, 0, 1920, 1080, 0, WideName), Region(0, 0, 960, 540, 1, <<"a">>)>>

\* answers of the region service: layout 'a' has the left half alone, or the
\* full canvas with the left half on top of it, or a quarter named in another
\* case and three halves of one area (two of them the same box, one named
\* after no layout)
ClickRegionData ==
    {<<[layout_name |-> <<"a">>, canvas_width |-> 1920, canvas_height |-> 1080,
        regions |-> <<Region(0, 0, 960, 1080, 0, WideName)>>],
       [layout_name |-> WideName, canvas_width |-> 1920, canvas_height |-> 1080,
        regions |-> WideRegions]>>,
     <<[layout_name |-> <<"a">>, canvas_width |-> 1920, canvas_height |-> 1080,
        regions |-> <<Region(0, 0, 1920, 1080, 0, <<"a">>),
                      Region(0, 0, 960, 1080, 1, WideName)>>],
       [layout_name |-> WideName, canvas_width |-> 1920, canvas_height |-> 1080,
        regions |-> WideRegions]>>,
     <<[layout_name |-> <<"a">>, canvas_width |-> 1920, canvas_height |-> 1080,
        regions |-> <<Region(0, 0, 960, 540, 0, <<"B">>),
                      Region(0, 0, 960, 1080, 1, WideName),
                      Region(0, 0, 960, 1080, 2, <<"b">>),
                      Region(960, 0, 960, 1080, 3, <<"c">>)>>],
       [layout_name |-> WideName, canvas_width |-> 1920, canvas_height |-> 1080,
        regions |-> WideRegions]>>}

InitClick ==
    /\ iteration = "part_002"
    /\ manifestUrlToLoad = HlsUrlA
    /\ layouts \in ClickRegistries
    /\ selectedLayout \in Names(layouts)
    /\ isLoading = FALSE
    /\ isSwitching = FALSE
    /\ error = NoError
    /\ isPlayerReady = TRUE
    /\ allLayoutRegions \in ClickRegionData
    /\ regions = MappedRegions(selectedLayout, allLayoutRegions)
    /\ canvasDimensions = MappedCanvas(selectedLayout, allLayoutRegions, DefaultCanvas)
    /\ token = ServerToken
    /\ showManualTokenInput = FALSE
    /\ isTokenLoading = FALSE
    /\ currentLayoutRef = selectedLayout
    /\ manifestLoads = << >>
    /\ layoutLoads = << >>
    /\ VariantMounted
    /\ StallMounted
    /\ ParserIdle
    /\ NoTimers
    /\ StorageEmpty

NextClick ==
    \/ \E videoHasSize \in BOOLEAN, pt \in CanvasPoints : HandleVideoClick(videoHasSize, pt)
    \/ \E i \in 1..MaxLayoutLoads, resolved \in BOOLEAN : LayoutLoadSettle(i, resolved)
    \/ \E name \in Names(layouts) : HandleLayoutChange(name)

SpecClick == InitClick /\ [][NextClick]_vars

\* C20: with canvas 1920x1080 and the single region {0, 0, 960, 1080, 'wide'}
\* as the active layout's regions, the selection a click with a sized video
\* at canvas point (100, 100) makes is the registry's layout 'wide', when
\* there is one and it is not selected yet.
C20_ExampleClickSelectsWide ==
    (/\ canvasDimensions = DefaultCanvas
     /\ regions = <<Region(0, 0, 960, 1080, 0, WideName)>>
     /\ WideName \in Names(layouts)
     /\ selectedLayout # WideName)
       => ClickSelection(layouts, regions, selectedLayout, TRUE, [x |-> 100, y |-> 100])
             = WideName

\* C21: for every canvas point, the hit region is the first region in stored
\* order that contains the point among all regions but the excluded one, and
\* there is no hit only when no such region contains the point; the excluded
\* region is the earliest region of maximal area, exactly one region, so
\* other regions of the same maximal area stay clickable.
C21_HitIsFirstClickable ==
    LET IsExcluded(i) ==
            /\ \A j \in 1..Len(regions) : Area(regions[j]) <= Area(regions[i])
            /\ \A j \in 1..(i - 1) : Area(regions[j]) # Area(regions[i])
    IN  Len(regions) > 0
           => /\ \A pt \in CanvasPoints :
                    LET hit == HitRegion(regions, pt)
                        clickable == {i \in 1..Len(regions) :
                                         ~IsExcluded(i) /\ Contains(regions[i], pt)}
                    IN  /\ hit = 0 <=> clickable = {}
                        /\ hit # 0 => hit \in clickable /\ \A j \in clickable : hit <= j
              /\ Cardinality({i \in 1..Len(regions) : IsExcluded(i)}) = 1

\* two regions of the same maximal area and the same box: a click inside them
\* hits the second
C21_Witness ==
    /\ Len(regions) = 4
    /\ Area(regions[2]) = Area(regions[3])
    /\ HitRegion(regions, [x |-> 100, y |-> 600]) = 3
    /\ HitRegion(regions, [x |-> 1000, y |-> 100]) = 4


\* C22: a hit region's parent_layout_name is looked up in the registry with
\* the case ignored: when a layout's name equals it up to case, a click with a
\* sized video and more than one layout proposes that layout; when none does,
\* the click proposes nothing (the selection is the one it was) and no step of
\* the click handler changes any part of the state: no flag, no error, no
\* load of the engine.
C22_UnknownParentIgnored ==
    \A pt \in CanvasPoints :
        LET hit == HitRegion(regions, pt)
            parent == regions[hit].parent_layout_name
            matches == {i \in 1..Len(layouts) :
                           ToLowerCase(layouts[i].name) = ToLowerCase(parent)}
        IN  (Len(layouts) > 1 /\ Len(regions) > 0 /\ hit # 0 /\ parent # Undefined)
               => /\ matches # {}
                     => \E i \in matches :
                           ClickSelection(layouts, regions, selectedLayout, TRUE, pt)
                              = layouts[i].name
                  /\ matches = {}
                     => /\ ClickSelection(layouts, regions, selectedLayout, TRUE, pt)
                              = selectedLayout
                        /\ ~ENABLED (HandleVideoClick(TRUE, pt) /\ vars' # vars)

\* a click hits a region named after no layout of the registry, and another
\* click hits one named after layout 'b' in upper case
C22_Witness ==
    /\ Len(layouts) = 3
    /\ Len(regions) = 4
    /\ HitRegion(regions, [x |-> 1000, y |-> 100]) = 4
    /\ FindLayoutIgnoringCase(layouts, regions[4].parent_layout_name) = 0
    /\ HitRegion(regions, [x |-> 100, y |-> 100]) = 1
    /\ layouts[FindLayoutIgnoringCase(layouts, regions[1].parent_layout_name)].name = <<"b">>


\* ---------------------------------------------------------------------
\* handleVideoClick of part_000's second component: every region can be hit,
\* the hit region names a layout by its index, and a click that proposes
\* nothing moves on to the next layout.
\* ---------------------------------------------------------------------

\* regions.find(...): the index of the hit region, 0 when none is hit
HitAnyRegion(rs, pt) ==
    IF \E i \in 1..Len(rs) : Contains(rs[i], pt)
    THEN CHOOSE i \in 1..Len(rs) :
            Contains(rs[i], pt) /\ \A j \in 1..(i - 1) : ~Contains(rs[j], pt)
    ELSE 0

\* a fallback that stays on the layout found
SameIndex(found, n) == IF found = 0 THEN 1 ELSE found

\* (currentIndex + 1) % layouts.length for the layout found at index found
\* (counted from 1, 0 for findIndex's -1), counted from 1
NextIndex(found, n) == (found % n) + 1

\* the layout a click at the canvas point selects; the selection as it is when
\* the click returns early or throws on a region whose source_idx is no index
\* of the registry
FallbackClickSelection(lays, rs, sel, pt) ==
    LET hit == HitAnyRegion(rs, pt)
        target == IF hit = 0 THEN 0 ELSE rs[hit].source_idx + 1
    IN  IF Len(lays) <= 1 THEN sel
        ELSE IF hit # 0 /\ target > Len(lays) THEN sel
        ELSE IF hit # 0 /\ lays[target].name # sel THEN lays[target].name
        ELSE lays[NextIndex(FindLayout(lays, sel), Len(lays))].name

\* a click on the video container of part_000
FallbackVideoClick(pt) ==
    /\ Commit(FallbackClickSelection(layouts, regions, selectedLayout, pt),
              layouts, FALSE, isLoading, isSwitching, error, currentLayoutRef,
              allLayoutRegions, canvasDimensions)
    /\ UNCHANGED <<manifestUrlToLoad, isPlayerReady, token, showManualTokenInput,
                   isTokenLoading, manifestLoads>>
    /\ UNCHANGED <<variantVars, storageVars, parseVars, timerVars>>

\* part_000 with a manifest loaded, a layout active and the regions mapped
InitFallback ==
    /\ iteration = "part_000"
    /\ manifestUrlToLoad = HlsUrlA
    /\ layouts \in ClickRegistries
    /\ selectedLayout \in Names(layouts)
    /\ isLoading = FALSE
    /\ isSwitching = FALSE
    /\ error = NoError
    /\ isPlayerReady = TRUE
    /\ allLayoutRegions \in ClickRegionData
    /\ regions = MappedRegions(selectedLayout, allLayoutRegions)
    /\ canvasDimensions = MappedCanvas(selectedLayout, allLayoutRegions, DefaultCanvas)
    /\ token = ServerToken
    /\ showManualTokenInput = FALSE
    /\ isTokenLoading = FALSE
    /\ currentLayoutRef = selectedLayout
    /\ manifestLoads = << >>
    /\ layoutLoads = << >>
    /\ VariantMounted
    /\ StallMounted
    /\ ParserIdle
    /\ NoTimers
    /\ StorageEmpty

NextFallback ==
    \/ \E pt \in CanvasPoints : FallbackVideoClick(pt)
    \/ \E i \in 1..MaxLayoutLoads, resolved \in BOOLEAN : LayoutLoadSettle(i, resolved)
    \/ \E name \in Names(layouts) : HandleLayoutChange(name)

SpecFallback == InitFallback /\ [][NextFallback]_vars

\* C23: with two or more layouts, for the selection as it is and for a
\* selection that names no layout, a click that hits no region proposes a
\* layout of the registry other than the selection: the one after the
\* selected layout in registry order, the first one after the last.
C23_FallbackCyclesRegistry ==
    \A pt \in CanvasPoints, sel \in {selectedLayout, NoLayout, <<"c">>} :
        (Len(layouts) >= 2 /\ HitAnyRegion(regions, pt) = 0)
           => LET proposed == FallbackClickSelection(layouts, regions, sel, pt)
                  n == Len(layouts)
              IN  /\ proposed \in Names(layouts)
                  /\ proposed # sel
                  /\ \A i \in 1..n :
                        layouts[i].name = sel
                           => proposed = layouts[IF i = n THEN 1 ELSE i + 1].name

\* the last layout of three is selected and a click outside every region has
\* wrapped around to the first, whose load is on its way
C23_Witness ==
    /\ Len(layouts) = 3
    /\ currentLayoutRef = layouts[3].name
    /\ selectedLayout = layouts[1].name
    /\ Len(layoutLoads) = 1
    /\ HitAnyRegion(regions, [x |-> 2000, y |-> 100]) = 0


(***************************************************************************)
(* Token acquisition (part_002): the initToken effect and getToken, run     *)
(* more than once against the same session storage.                         *)
(***************************************************************************)

\* the getToken calls one run may make
MaxTokenCalls == 3

\* what the token endpoint may answer a request with: any token it issues, or
\* one of the failures TokenOutcomes lists
TokenResponses == Tokens \cup {"CORS_ERROR", "HTTP 401"}

\* the calls whose request to the token endpoint is outstanding
Outstanding(calls) == {k \in 1..Len(calls) : calls[k].stage = "fetch"}

\* one run of the initToken effect up to the point where getToken awaits the
\* endpoint, or to its end when sessionStorage holds a token
InitToken ==
    /\ Len(tokenCalls) < MaxTokenCalls
    /\ IF sessionToken # NoToken
       THEN /\ tokenCalls' = Append(tokenCalls,
                                    [stage |-> "returned", result |-> sessionToken,
                                     during |-> Outstanding(tokenCalls)])
            /\ TokenReceived(sessionToken)
       ELSE /\ tokenCalls' = Append(tokenCalls, PendingCall(tokenCalls))
            /\ isTokenLoading' = TRUE
            /\ UNCHANGED <<layouts, selectedLayout, isLoading, isSwitching, error,
                           regions, allLayoutRegions, canvasDimensions, token,
                           showManualTokenInput, currentLayoutRef, manifestLoads,
                           layoutLoads>>
    /\ UNCHANGED <<manifestUrlToLoad, isPlayerReady, sessionToken>>
    /\ UNCHANGED <<variantVars, parseVars, timerVars>>

\* part_002 rendered, no effect run yet; the tab's storage may hold a token
InitTokenMount ==
    /\ manifestUrlToLoad = EmptyString
    /\ layouts = << >>
    /\ selectedLayout = NoLayout
    /\ isLoading = FALSE
    /\ isSwitching = FALSE
    /\ isPlayerReady = TRUE
    /\ error = NoError
    /\ regions = << >>
    /\ allLayoutRegions = << >>
    /\ canvasDimensions = DefaultCanvas
    /\ token = NoToken
    /\ showManualTokenInput = FALSE
    /\ isTokenLoading = FALSE
    /\ currentLayoutRef = NullRef
    /\ manifestLoads = << >>
    /\ layoutLoads = << >>
    /\ iteration = "part_002"
    /\ VariantMounted
    /\ StallMounted
    /\ ParserIdle
    /\ NoTimers
    /\ sessionToken \in {NoToken, ServerToken}
    /\ tokenCalls = << >>

NextToken ==
    \/ InitToken
    \/ \E k \in 1..MaxTokenCalls, r \in TokenResponses : TokenInitSettle(k, r)
    \/ ToggleManualTokenInput
    \/ \E t \in Tokens : ApplyManualToken(t)
    \/ ClearToken

SpecToken == InitTokenMount /\ [][NextToken]_vars

\* C24: getToken calls that overlap, started with no token cached, converge
\* on one outstanding request to the token endpoint, and the overlapping
\* calls that return a token return the same one.
C24_ConcurrentCallsShareRequest ==
    /\ Cardinality(Outstanding(tokenCalls)) <= 1
    /\ \A k \in 1..Len(tokenCalls) : \A j \in tokenCalls[k].during :
          (tokenCalls[k].stage = "returned" /\ tokenCalls[j].stage = "returned")
             => tokenCalls[k].result = tokenCalls[j].result


\* C25: after any failure of the automated token acquisition the manual
\* token input becomes available (it is shown, or the Manage Token button
\* that opens it is rendered), and applying a non-empty manual token sets the
\* session token and clears the error.
C25_ManualOverrideAfterFailure ==
    [][/\ (\E k \in 1..Len(tokenCalls) :
              tokenCalls[k].stage = "fetch" /\ tokenCalls'[k].stage = "thrown")
          => (showManualTokenInput' \/ (token' # NoToken /\ ~isTokenLoading'))
       /\ \A t \in Tokens :
             ApplyManualToken(t) => (token' = t /\ sessionToken' = t /\ error' = NoError)
      ]_vars


\* C26: a failed region-metadata fetch (transport error, non-success status,
\* unparsable stream path) is swallowed: while the session is loading, the
\* load that made the fetch still selects the first layout it parsed and has
\* the engine load it, no error is set, and the region data is left as it
\* was, so regions stay empty when none had been fetched.
C26_RegionFailureSwallowed ==
    [][\A i \in 1..Len(manifestLoads) :
          (RegionsFetchSettle(i, [ok |-> FALSE, isArray |-> FALSE, data |-> << >>])
              /\ isLoading /\ manifestLoads[i].parsed = layouts)
          => /\ selectedLayout' = layouts[1].name
             /\ \/ currentLayoutRef' = layouts[1].name
                \/ \E j \in 1..Len(layoutLoads') : layoutLoads'[j].layout = layouts[1].name
             /\ error' = NoError \/ error' = error
             /\ ~isLoading'
             /\ allLayoutRegions' = allLayoutRegions
             /\ Len(allLayoutRegions) = 0 => regions' = << >>
      ]_vars

C26_Witness ==
    /\ ~StreamPathParses(manifestUrlToLoad)
    /\ Len(layouts) = 2
    /\ Len(manifestLoads) = 0
    /\ ~isLoading
    /\ selectedLayout = layouts[1].name
    /\ \E j \in 1..Len(layoutLoads) : layoutLoads[j].layout = layouts[1].name
    /\ error = NoError
    /\ allLayoutRegions = << >>
    /\ regions = << >>


(***************************************************************************)
(* parseManifestForLayouts of src/src/App.js, applied to fetched manifests. *)
(***************************************************************************)

\* the lines of the manifests parsed
MaxLines == 4

LayoutWord == <<"L", "a", "y", "o", "u", "t">>
Digits == {"0", "1", "2", "3", "4", "5", "6", "7", "8", "9"}

\* 'master.m3u8', the last part of every layout's master playlist URL
MasterPlaylist == "master.m3u8"

\* whether /Layout\d+/ matches the text s at position i
LayoutMatchAt(s, i) ==
    /\ i + Len(LayoutWord) <= Len(s)
    /\ SubSeq(s, i, i + Len(LayoutWord) - 1) = LayoutWord
    /\ s[i + Len(LayoutWord)] \in Digits

\* s.match(/Layout\d+/)?.[0] within one '/'-free stretch of the line: the
\* leftmost match, with all the digits that follow; empty when none matches
LayoutTokenIn(s) ==
    IF \E i \in 1..Len(s) : LayoutMatchAt(s, i)
    THEN LET i == CHOOSE i \in 1..Len(s) :
                     /\ LayoutMatchAt(s, i)
                     /\ \A j \in 1..(i - 1) : ~LayoutMatchAt(s, j)
             last == CHOOSE k \in (i + Len(LayoutWord))..Len(s) :
                        /\ \A j \in (i + Len(LayoutWord))..k : s[j] \in Digits
                        /\ k = Len(s) \/ s[k + 1] \notin Digits
         IN  SubSeq(s, i, last)
    ELSE EmptyString

\* nextLine.match(/Layout\d+/)?.[0]: the match cannot span a '/', so it is
\* the token of the first part of the line that holds one
LayoutToken(path) ==
    IF \E p \in 1..Len(path) : LayoutTokenIn(path[p]) # EmptyString
    THEN LayoutTokenIn(path[CHOOSE p \in 1..Len(path) :
                               /\ LayoutTokenIn(path[p]) # EmptyString
                               /\ \A q \in 1..(p - 1) : LayoutTokenIn(path[q]) = EmptyString])
    ELSE EmptyString

\* nextLine.match(/^([^\/]+)\//)?.[1]: the text before the first '/', when
\* there is a '/' and text before it
FirstPathSegment(path) ==
    IF Len(path) > 1 /\ path[1] # EmptyString THEN path[1] ELSE EmptyString

\* a resolution that makes the parser read the VIDEO attribute before NAME
VideoBeforeName(lines, i) ==
    IF lines[i].video # EmptyString THEN lines[i].video
    ELSE IF lines[i].name # EmptyString THEN lines[i].name
    ELSE IF FirstPathSegment(lines[i + 1].path) # EmptyString
         THEN FirstPathSegment(lines[i + 1].path)
    ELSE LayoutToken(lines[i + 1].path)

\* layoutName: nameMatch?.[1] || videoMatch?.[1], else the first path segment
\* of the URI line, else its first Layout<N> token; empty when none resolves
AppLayoutNameOf(lines, i) ==
    IF lines[i].name # EmptyString THEN lines[i].name
    ELSE IF lines[i].video # EmptyString THEN lines[i].video
    ELSE IF FirstPathSegment(lines[i + 1].path) # EmptyString
         THEN FirstPathSegment(lines[i + 1].path)
    ELSE LayoutToken(lines[i + 1].path)

\* the stream-info lines that push a stream into layoutMap
AppIsEntry(lines, i) ==
    /\ lines[i].kind = "inf"
    /\ HasUriLine(lines, i)
    /\ AppLayoutNameOf(lines, i) # EmptyString
    /\ lines[i].bandwidth # NoNumber
    /\ lines[i].resolution # NoText

\* the keys of layoutMap after the scan
AppLayoutKeys(lines) ==
    {AppLayoutNameOf(lines, i) : i \in {j \in 1..Len(lines) : AppIsEntry(lines, j)}}

\* a scan that replaces a key's record at each of its entries, keeping only
\* the stream of the last one
LastStreamOf(lines, key) ==
    LET last == CHOOSE i \in 1..Len(lines) :
                    /\ AppIsEntry(lines, i) /\ AppLayoutNameOf(lines, i) = key
                    /\ \A j \in (i + 1)..Len(lines) :
                          ~(AppIsEntry(lines, j) /\ AppLayoutNameOf(lines, j) = key)
    IN  <<[bandwidth |-> lines[last].bandwidth,
           resolution |-> lines[last].resolution,
           streamInfoLine |-> last,
           streamUrlLine |-> lines[last + 1].path]>>

\* layoutData.streams of one key, in the order the lines were scanned
StreamsOf(lines, key) ==
    LET idx == SelectSeq([i \in 1..Len(lines) |-> i],
                         LAMBDA i : AppIsEntry(lines, i) /\ AppLayoutNameOf(lines, i) = key)
    IN  [k \in 1..Len(idx) |->
            [bandwidth |-> lines[idx[k]].bandwidth,
             resolution |-> lines[idx[k]].resolution,
             streamInfoLine |-> idx[k],
             streamUrlLine |-> lines[idx[k] + 1].path]]

RECURSIVE BestQuality(_, _)
\* bestQuality after the streams were pushed: replaced by each stream whose
\* bandwidth is greater than the best so far, starting from bandwidth 0
BestQuality(streams, best) ==
    IF streams = << >> THEN best
    ELSE BestQuality(Tail(streams),
                     IF Head(streams).bandwidth > best.bandwidth
                     THEN [bandwidth |-> Head(streams).bandwidth,
                           resolution |-> Head(streams).resolution]
                     ELSE best)

\* a master URL built from the URI line of the layout's first stream
UrlFromUriLine(manifestUrl, layoutName, streams) ==
    BaseUrl(manifestUrl) \o streams[1].streamUrlLine

\* `${baseUrl}${layout.name}/master.m3u8`, as the parts between its slashes
AppMasterUrl(manifestUrl, layoutName, streams) ==
    BaseUrl(manifestUrl) \o <<layoutName, MasterPlaylist>>

\* the array parseManifestForLayouts returns for a fetched manifest
AppParseLayouts(manifestUrl, lines) ==
    LET sorted == SortedNames(AppLayoutKeys(lines))
    IN  [i \in 1..Len(sorted) |->
            LET streams == StreamsOf(lines, sorted[i])
                best == BestQuality(streams, [bandwidth |-> 0, resolution |-> NoText])
            IN  [name |-> sorted[i], displayName |-> sorted[i],
                 masterUrl |-> AppMasterUrl(manifestUrl, sorted[i], streams),
                 streams |-> streams,
                 bandwidth |-> best.bandwidth, resolution |-> best.resolution]]

\* the lines the manifests are made of
ParseLines ==
    {InfLine(800000, "640x360", <<"a">>, EmptyString),
     InfLine(2000000, "1920x1080", <<"B">>, <<"c">>),
     InfLine(800000, "640x360", EmptyString, <<"c">>),
     InfLine(1200000, "1280x720", EmptyString, EmptyString),
     InfLine(NoNumber, "640x360", <<"a">>, EmptyString),
     InfLine(0, "640x360", <<"a">>, EmptyString),
     UriLine(<< <<"a">>, <<"l">> >>),
     UriLine(<< <<"x">>, LayoutWord \o <<"1">> >>),
     UriLine(<< LayoutWord \o <<"2", ".">> >>),
     UriLine(<< EmptyString, <<"y">> \o LayoutWord \o <<"1", "2">>, <<"l">> >>),
     UriLine(<< <<"l">> >>),
     CommentLine,
     BlankLine}

\* the manifests parsed: every sequence of at most MaxLines of these lines
ParseManifests == UNION {[1..n -> ParseLines] : n \in 0..MaxLines}

\* a call of parseManifestForLayouts whose fetch has answered
InitParse ==
    /\ iteration = "App.js"
    /\ manifestUrlToLoad = EmptyString
    /\ isLoading = FALSE
    /\ isSwitching = FALSE
    /\ isPlayerReady = TRUE
    /\ error = NoError
    /\ VariantMounted
    /\ RegionUnmounted
    /\ StallMounted
    /\ StorageEmpty
    /\ NoTimers
    /\ parserInput \in [url : Urls, lines : ParseManifests]
    /\ parserOutput = NotReturned

\* parseManifestForLayouts from the split of the text to its return
ParseManifestForLayouts ==
    /\ parserInput # NoCall
    /\ parserOutput = NotReturned
    /\ parserOutput' = [returned |-> TRUE,
                        layouts |-> AppParseLayouts(parserInput.url, parserInput.lines)]
    /\ UNCHANGED <<parserInput, regionVars, variantVars, storageVars, timerVars>>

NextParse == ParseManifestForLayouts

SpecParse == InitParse /\ [][NextParse]_vars


\* C27: a manifest with N well-formed stream-info/URI pairs (a stream-info
\* line with BANDWIDTH and RESOLUTION, directly followed by a URI line, with
\* a key that resolves) over K distinct keys parses to exactly K layouts
\* with pairwise distinct names, each with at least one stream, and the
\* stream counts add up to N.
C27_OneLayoutPerKey ==
    parserOutput.returned =>
        LET lines == parserInput.lines
            out == parserOutput.layouts
            pairs == {i \in 1..Len(lines) :
                        /\ lines[i].kind = "inf"
                        /\ lines[i].bandwidth # NoNumber
                        /\ lines[i].resolution # NoText
                        /\ i < Len(lines) /\ lines[i + 1].kind = "uri"
                        /\ AppLayoutNameOf(lines, i) # EmptyString}
            keys == {AppLayoutNameOf(lines, i) : i \in pairs}
        IN  /\ Len(out) = Cardinality(keys)
            /\ \A i, j \in 1..Len(out) : i # j => out[i].name # out[j].name
            /\ \A i \in 1..Len(out) : Len(out[i].streams) >= 1
            /\ Cardinality({<<i, k>> \in (1..Len(out)) \X (1..MaxLines) :
                               k <= Len(out[i].streams)}) = Cardinality(pairs)

C27_Witness ==
    /\ parserOutput.returned
    /\ Len(parserInput.lines) = MaxLines
    /\ Len(parserOutput.layouts) = 1
    /\ Len(parserOutput.layouts[1].streams) = 2
    /\ parserOutput.layouts[1].streams[1].streamUrlLine
          # parserOutput.layouts[1].streams[2].streamUrlLine


\* the code unit of a character of the names in use
CharCode(c) ==
    CASE c = "." -> 46 [] c = "1" -> 49 [] c = "2" -> 50
      [] c = "A" -> 65 [] c = "B" -> 66 [] c = "C" -> 67 [] c = "L" -> 76
      [] c = "a" -> 97 [] c = "b" -> 98 [] c = "c" -> 99 [] c = "l" -> 108
      [] c = "o" -> 111 [] c = "t" -> 116 [] c = "u" -> 117 [] c = "x" -> 120
      [] c = "y" -> 121
      [] OTHER -> 0

\* s < t in the order of the code units
ByteLess(s, t) ==
    LexLess([i \in 1..Len(s) |-> CharCode(s[i])], [i \in 1..Len(t) |-> CharCode(t[i])])

\* C28: the returned list is sorted ascending by name in case-sensitive byte
\* order, an upper-case name before a lower-case one, so the layout that is
\* auto-selected, the first of the list, is the least name in that order.
C28_SortedByByteOrder ==
    parserOutput.returned =>
        \A i, j \in 1..Len(parserOutput.layouts) :
            i < j => ByteLess(parserOutput.layouts[i].name, parserOutput.layouts[j].name)


\* C29: the key of an entry is the NAME attribute if the line has one, else
\* the VIDEO attribute, else the first path segment of the URI line, else the
\* first Layout<N> token of the URI line; an entry for which none of the
\* four resolves adds nothing to the result.
C29_KeyPriority ==
    parserOutput.returned =>
        LET lines == parserInput.lines
            out == parserOutput.layouts
            pairs == {i \in 1..Len(lines) :
                        /\ lines[i].kind = "inf"
                        /\ lines[i].bandwidth # NoNumber
                        /\ lines[i].resolution # NoText
                        /\ i < Len(lines) /\ lines[i + 1].kind = "uri"}
            HasStream(key, i) ==
                \E n \in 1..Len(out) :
                    /\ out[n].name = key
                    /\ \E k \in 1..Len(out[n].streams) : out[n].streams[k].streamInfoLine = i
            Listed(i) ==
                \E n \in 1..Len(out) :
                    \E k \in 1..Len(out[n].streams) : out[n].streams[k].streamInfoLine = i
        IN  \A i \in pairs :
               LET uri == lines[i + 1].path
               IN  IF lines[i].name # EmptyString THEN HasStream(lines[i].name, i)
                   ELSE IF lines[i].video # EmptyString THEN HasStream(lines[i].video, i)
                   ELSE IF Len(uri) > 1 /\ uri[1] # EmptyString THEN HasStream(uri[1], i)
                   ELSE IF LayoutToken(uri) # EmptyString THEN HasStream(LayoutToken(uri), i)
                   ELSE ~Listed(i)

C29_Witness ==
    /\ parserOutput.returned
    /\ Len(parserInput.lines) = MaxLines
    /\ parserInput.lines[1].name = <<"B">> /\ parserInput.lines[1].video = <<"c">>
    /\ parserInput.lines[3].kind = "inf"
    /\ parserInput.lines[3].name = EmptyString /\ parserInput.lines[3].video = EmptyString
    /\ parserInput.lines[4].kind = "uri" /\ parserInput.lines[4].path[1] = EmptyString
    /\ Len(parserOutput.layouts) = 2
    /\ parserOutput.layouts[1].name = <<"B">>
    /\ parserOutput.layouts[2].name = LayoutWord \o <<"1", "2">>


\* the manifest with the URI line of every pair replaced by another one,
\* where the pair's key comes from an attribute
OtherUri == UriLine(<< <<"z">>, <<"q">> >>)
UriSwapped(lines) ==
    [i \in 1..Len(lines) |->
        IF /\ i > 1 /\ lines[i].kind = "uri" /\ lines[i - 1].kind = "inf"
           /\ (lines[i - 1].name # EmptyString \/ lines[i - 1].video # EmptyString)
        THEN OtherUri
        ELSE lines[i]]

\* C30: every returned layout has masterUrl = baseURL + key + '/master.m3u8',
\* baseURL being the manifest URL up to and including its last '/'; the URI
\* lines of the manifest have no part in it: with other URI lines under the
\* same keys the names and master URLs returned are the same.
C30_MasterUrlFromKey ==
    parserOutput.returned =>
        LET url == parserInput.url
            out == parserOutput.layouts
            swapped == AppParseLayouts(url, UriSwapped(parserInput.lines))
        IN  /\ \A i \in 1..Len(out) :
                  /\ Len(out[i].masterUrl) = Len(url) + 1
                  /\ SubSeq(out[i].masterUrl, 1, Len(url) - 1) = SubSeq(url, 1, Len(url) - 1)
                  /\ out[i].masterUrl[Len(url)] = out[i].name
                  /\ out[i].masterUrl[Len(url) + 1] = "master.m3u8"
            /\ Len(swapped) = Len(out)
            /\ \A i \in 1..Len(out) :
                  /\ swapped[i].name = out[i].name
                  /\ swapped[i].masterUrl = out[i].masterUrl

C30_Witness ==
    /\ parserOutput.returned
    /\ Len(parserOutput.layouts) = 2
    /\ UriSwapped(parserInput.lines) # parserInput.lines
    /\ \E i \in 1..Len(parserInput.lines) :
          /\ parserInput.lines[i].kind = "uri"
          /\ Len(parserInput.lines[i].path) > 1
          /\ parserInput.lines[i].path[1] = parserOutput.layouts[1].name


\* C31: the entries that share a key aggregate into one layout, and the
\* layout's best-quality bandwidth and resolution are those of an entry of
\* the greatest bandwidth among them.
C31_BestQualityIsMaxBandwidth ==
    parserOutput.returned =>
        \A n \in 1..Len(parserOutput.layouts) :
            LET layout == parserOutput.layouts[n]
            IN  /\ \A m \in 1..Len(parserOutput.layouts) :
                      m # n => parserOutput.layouts[m].name # layout.name
                /\ \E k \in 1..Len(layout.streams) :
                      /\ layout.streams[k].bandwidth = layout.bandwidth
                      /\ layout.streams[k].resolution = layout.resolution
                /\ \A k \in 1..Len(layout.streams) :
                      layout.streams[k].bandwidth <= layout.bandwidth


C33_AbrToggleIsIndependent ==
    [][abrEnabled' # abrEnabled
          => /\ engineAbr' = abrEnabled'
             /\ UNCHANGED <<variantTracks, activeVariant, programs, selectedProgramLabel,
                            isLoading, isSwitching>>]_vars


\* C34: whenever a region click can be hit-tested (two or more layouts, a
\* layout loaded in the engine), the regions it is tested against are those
\* of the layout currentLayoutRef names, also while a switch is in flight
\* and after a failed switch.
C34_RegionsOfActiveLayout ==
    (Len(layouts) > 1 /\ currentLayoutRef # NullRef)
       => regions = MappedRegions(currentLayoutRef, allLayoutRegions)


(***************************************************************************)
(* Layout switches of part_002 while the video plays.                       *)
(***************************************************************************)

\* the positions video.currentTime is seen at, in tenths of a second
VideoPositions == {0, 5, 10, 15}

\* the video element's position moves: playback, or the engine's load
VideoTimeUpdate(t) ==
    /\ t # videoCurrentTime
    /\ videoCurrentTime' = t
    /\ UNCHANGED <<regionVars, iteration, programs, selectedProgramLabel, abrEnabled,
                   switchTimeoutRef, manifestVersionRef, engineLoads, variantTracks,
                   activeVariant, engineAbr, selectCalls, lastLog, reloads, reloadPrompt,
                   loadRequests, stallCountRef, lastTimeUpdateRef, playbackStalled,
                   lastPlaybackTime, videoPaused, engineBuffering, isLive, seekRangeEnd,
                   cooldownTimers, recoveries, seeks, stalledBy, missRun, contentLoads,
                   storageVars, parseVars, timerVars>>

NextSwitch ==
    \/ \E t \in VideoPositions : VideoTimeUpdate(t)
    \/ \E videoHasSize \in BOOLEAN, pt \in CanvasPoints : HandleVideoClick(videoHasSize, pt)
    \/ \E i \in 1..MaxLayoutLoads, resolved \in BOOLEAN : LayoutLoadSettle(i, resolved)
    \/ \E name \in Names(layouts) : HandleLayoutChange(name)

SpecSwitch == InitClick /\ [][NextSwitch]_vars

\* C35: the start offset a switch passes to the engine load is the position
\* read when that switch is dispatched if it exceeds 1 second, and 0
\* otherwise; the offset of a dispatched load does not follow the position
\* afterwards.
C35_StartOffsetAboveOneSecond ==
    [][/\ Len(layoutLoads') > Len(layoutLoads)
          => layoutLoads'[Len(layoutLoads')].startTime
                = (IF videoCurrentTime > 10 THEN videoCurrentTime ELSE 0)
       /\ videoCurrentTime' # videoCurrentTime => layoutLoads' = layoutLoads
      ]_vars

C35_Witness ==
    /\ Len(layoutLoads) = 2
    /\ layoutLoads[1].startTime = 15
    /\ layoutLoads[2].startTime = 0
    /\ videoCurrentTime = 5


\* ---------------------------------------------------------------------------
\* part_000, first component: the switch effect and its 5000 ms timer
\* ---------------------------------------------------------------------------

ProgramSelector == "part_000 (program selector)"

MaxSwitchTimers == 2

\* the timer the switch effect starts: its callback tests the isSwitching of
\* the render whose effect started it
SwitchTimer(sw) == [isSwitching |-> sw]

\* the branch the switch effect of part_000 takes
SelectorSwitchOutcome(sel, progs, sw, tracks, active) ==
    IF sel = NoLabel \/ Len(progs) = 0 \/ ~isPlayerReady \/ sw THEN "return"
    ELSE IF FindProgram(progs, sel) = 0 THEN "No program data found"
    ELSE IF progs[FindProgram(progs, sel)].variantId = 0 THEN "No program data found"
    ELSE IF active = progs[FindProgram(progs, sel)].variantId THEN "already active"
    ELSE IF progs[FindProgram(progs, sel)].variantId \notin TrackIds(tracks)
         THEN "Could not find variant"
    ELSE "selectVariantTrack"

\* The commit of one callback's state changes and the switch effect they
\* trigger (run: selectedProgramLabel or isSwitching changed).  sw is the
\* isSwitching of the committed render; throws: selectVariantTrack throws.
SelectorCommit(run, sel, loading, sw, err, active, timers, throws) ==
    LET outcome == IF run
                   THEN SelectorSwitchOutcome(sel, programs, sw, variantTracks, active)
                   ELSE "return"
        dispatch == outcome = "selectVariantTrack"
    IN  /\ selectedProgramLabel' = sel
        /\ isLoading' = loading
        /\ activeVariant' = active
        /\ isSwitching' = IF dispatch THEN ~throws ELSE sw
        /\ error' = IF dispatch
                    THEN (IF throws THEN "Error switching layout" ELSE NoError)
                    ELSE IF outcome = "Could not find variant" THEN "Variant not found"
                    ELSE err
        /\ switchTimers' = IF dispatch /\ ~throws
                           THEN Append(timers, SwitchTimer(sw))
                           ELSE timers
        /\ Len(switchTimers') <= MaxSwitchTimers
        /\ selectCalls' = IF dispatch THEN selectCalls + 1 ELSE selectCalls
        /\ selectCalls' <= MaxSelectCalls
        /\ lastLog' = IF outcome = "return" THEN lastLog ELSE Logged(outcome)
        /\ UNCHANGED <<manifestUrlToLoad, isPlayerReady, regionOnlyVars, iteration,
                       programs, abrEnabled, switchTimeoutRef, manifestVersionRef,
                       engineLoads, variantTracks, engineAbr, reloads, reloadPrompt,
                       loadRequests, stallVars, storageVars, parseVars,
                       autoLoadTimers>>

\* the component after a manifest loaded: the programs of its tracks listed,
\* the active variant's program selected, and the switch effect has returned
InitSelector ==
    /\ iteration = ProgramSelector
    /\ manifestUrlToLoad = HlsUrlA
    /\ isLoading = FALSE
    /\ isSwitching = FALSE
    /\ isPlayerReady = TRUE
    /\ error = NoError
    /\ variantTracks \in {TracksPQ, TracksQR}
    /\ activeVariant \in TrackIds(variantTracks)
    /\ programs = AvailablePrograms(variantTracks, 0)
    /\ selectedProgramLabel = InitialProgramLabel(programs, variantTracks, activeVariant)
    /\ abrEnabled = FALSE
    /\ switchTimeoutRef = NoTimer
    /\ manifestVersionRef = 0
    /\ engineLoads = << >>
    /\ engineAbr = FALSE
    /\ selectCalls = 0
    /\ lastLog = Logged("mounted")
    /\ reloads = << >>
    /\ reloadPrompt = NoPrompt
    /\ loadRequests = 0
    /\ RegionUnmounted
    /\ StallMounted
    /\ ParserIdle
    /\ NoTimers
    /\ StorageEmpty

\* handleProgramChange of part_000 and the switch effect it triggers
SelectorProgramChange(label, throws) ==
    /\ iteration = ProgramSelector
    /\ label \in Labels(programs)
    /\ ~isSwitching
    /\ SelectorCommit(label # selectedProgramLabel, label, isLoading, isSwitching,
                      error, activeVariant, switchTimers, throws)

\* the 'variantchanged' listener of part_000 and the effect its
\* setIsSwitching(false) triggers
SelectorVariantChanged(id, throws) ==
    /\ iteration = ProgramSelector
    /\ id \in TrackIds(variantTracks)
    /\ SelectorCommit(isSwitching, selectedProgramLabel, isLoading, FALSE, error,
                      id, switchTimers, throws)

\* the 'error' listener of part_000 and the effect it triggers
SelectorPlayerError(throws) ==
    /\ iteration = ProgramSelector
    /\ SelectorCommit(isSwitching, selectedProgramLabel, FALSE, FALSE,
                      "Player Error", activeVariant, switchTimers, throws)

\* a switch effect's setTimeout callback runs after its 5000 ms
SelectorSwitchTimeout(throws) ==
    /\ iteration = ProgramSelector
    /\ switchTimers # << >>
    /\ LET timer == Head(switchTimers)
           reset == timer.isSwitching
       IN  SelectorCommit(reset /\ isSwitching, selectedProgramLabel, isLoading,
                          IF reset THEN FALSE ELSE isSwitching, error,
                          activeVariant, Tail(switchTimers), throws)

NextSelector ==
    \/ \E label \in {"p", "q", "r"}, throws \in BOOLEAN :
           SelectorProgramChange(label, throws)
    \/ \E id \in 0..2, throws \in BOOLEAN : SelectorVariantChanged(id, throws)
    \/ \E throws \in BOOLEAN : SelectorPlayerError(throws)
    \/ \E throws \in BOOLEAN : SelectorSwitchTimeout(throws)

SpecSelector == InitSelector /\ [][NextSelector]_vars

\* the timers of the browser run: a pending callback is eventually called
SpecSelectorFair ==
    /\ SpecSelector
    /\ WF_vars(\E throws \in BOOLEAN : SelectorSwitchTimeout(throws))

\* C36: in part_000's first component a switch in progress always comes to an
\* end: when 'variantchanged' does not fire, the callback of the 5000 ms timer
\* the switch effect started sets isSwitching back to false.
C36_TimeoutResetsSwitching == isSwitching ~> ~isSwitching


\* C39: in part_001 a switch timeout is pending only while isSwitching is
\* true, and selectVariantTrack is dispatched only with no timeout pending,
\* so the timer the switch effect stores never replaces one still scheduled.
C39_TimeoutOnlyWhileSwitching ==
    /\ [](iteration = "part_001" /\ switchTimeoutRef # NoTimer => isSwitching)
    /\ [][iteration = "part_001" /\ selectCalls' # selectCalls
              => switchTimeoutRef = NoTimer]_vars

\* a switch of part_001 is in progress and its timeout is scheduled
C39_Witness ==
    /\ iteration = "part_001"
    /\ isSwitching
    /\ switchTimeoutRef # NoTimer
    /\ selectCalls = MaxSelectCalls


\* ---------------------------------------------------------------------------
\* src/src/App.js: the top-level load, its delayed auto-load and the
\* selected-layout effect
\* ---------------------------------------------------------------------------

MaxAppLoads == 2

\* the player.load calls of a session: two for every top-level load
MaxAppEngineLoads == 2 * MaxAppLoads

\* the manifests the top-level loads fetch: none, one and two layouts
AppManifestNone == <<CommentLine>>
AppManifestOne ==
    <<InfLine(800000, "640x360", <<"a">>, EmptyString), UriLine(<< <<"a">>, <<"l">> >>)>>
AppManifestTwo ==
    AppManifestOne
    \o <<InfLine(2000000, "1920x1080", <<"B">>, <<"c">>), UriLine(<< <<"l">> >>)>>
AppManifests == {AppManifestNone, AppManifestOne, AppManifestTwo}

\* a player.load call: who made it, and the top-level load that led to it
\* (0: a selection of the user)
EngineLoad(url, by, load) == [url |-> url, by |-> by, manifestLoad |-> load]

\* The commit of one callback's state changes and the loadLayout effect they
\* trigger (run: selectedLayout or layouts changed); load: the top-level load
\* whose continuation commits, 0 for a handler of the user.
AppCommit(run, lays, sel, loading, err, load) ==
    LET dispatch == /\ run
                    /\ sel # NoLayout /\ isPlayerReady /\ Len(lays) > 0
                    /\ FindLayout(lays, sel) # 0
                    /\ currentLayoutRef # sel
        url == lays[FindLayout(lays, sel)].masterUrl
    IN  /\ layouts' = lays
        /\ selectedLayout' = sel
        /\ isLoading' = loading
        /\ isSwitching' = (dispatch \/ isSwitching)
        /\ error' = IF dispatch THEN NoError ELSE err
        /\ layoutLoads' = IF dispatch
                          THEN Append(layoutLoads,
                                      [layout |-> sel, url |-> url, by |-> "loadLayout"])
                          ELSE layoutLoads
        /\ engineLoads' = IF dispatch
                          THEN Append(engineLoads, EngineLoad(url, "loadLayout", load))
                          ELSE engineLoads
        /\ Len(engineLoads') <= MaxAppEngineLoads

\* App.js mounted with a player, nothing loaded
InitApp ==
    /\ iteration = "App.js"
    /\ manifestUrlToLoad = EmptyString
    /\ isLoading = FALSE
    /\ isSwitching = FALSE
    /\ isPlayerReady = TRUE
    /\ error = NoError
    /\ VariantMounted
    /\ RegionUnmounted
    /\ StallMounted
    /\ ParserIdle
    /\ NoTimers
    /\ StorageEmpty

\* what the App.js handlers leave alone
appFrame ==
    <<isPlayerReady, regions, allLayoutRegions, canvasDimensions, token,
      showManualTokenInput, isTokenLoading, iteration, programs,
      selectedProgramLabel, abrEnabled, switchTimeoutRef, manifestVersionRef,
      variantTracks, activeVariant, engineAbr, selectCalls, lastLog, reloads,
      reloadPrompt, stallVars, storageVars, parseVars, switchTimers>>

\* handleLoadClick with a URL other than the loaded one, and loadManifest up
\* to its await
AppHandleLoadClick(url) ==
    /\ iteration = "App.js"
    /\ ~isLoading /\ ~isSwitching /\ isPlayerReady
    /\ url # manifestUrlToLoad
    /\ loadRequests < MaxAppLoads
    /\ loadRequests' = loadRequests + 1
    /\ manifestUrlToLoad' = url
    /\ manifestLoads' = Append(manifestLoads,
                               [url |-> url, load |-> loadRequests',
                                isPlayerReady |-> isPlayerReady])
    /\ AppCommit(TRUE, << >>, NoLayout, TRUE, NoError, loadRequests')
    /\ UNCHANGED <<currentLayoutRef, autoLoadTimers, appFrame>>

\* loadManifest resumed by parseManifestForLayouts: it threw, or it returned
\* the layouts of the fetched lines
AppManifestSettle(i, ok, lines) ==
    /\ iteration = "App.js"
    /\ i \in 1..Len(manifestLoads)
    /\ LET call == manifestLoads[i]
           parsed == AppParseLayouts(call.url, lines)
       IN  /\ manifestLoads' = RemoveAt(manifestLoads, i)
           /\ IF ~ok
              THEN /\ AppCommit(FALSE, layouts, selectedLayout, FALSE,
                                "Error loading manifest", call.load)
                   /\ UNCHANGED autoLoadTimers
              ELSE IF Len(parsed) = 0
              THEN /\ AppCommit(TRUE, parsed, selectedLayout, FALSE,
                                "No layouts found in manifest", call.load)
                   /\ UNCHANGED autoLoadTimers
              ELSE /\ AppCommit(TRUE, parsed, parsed[1].name, FALSE, error, call.load)
                   /\ autoLoadTimers' =
                          Append(autoLoadTimers,
                                 [layout |-> parsed[1].name, url |-> parsed[1].masterUrl,
                                  isPlayerReady |-> call.isPlayerReady,
                                  load |-> call.load, fired |-> FALSE])
    /\ UNCHANGED <<manifestUrlToLoad, currentLayoutRef, loadRequests, appFrame>>

\* the callback of the 100 ms timer of loadManifest
AppAutoLoad(j) ==
    /\ iteration = "App.js"
    /\ j \in 1..Len(autoLoadTimers)
    /\ ~autoLoadTimers[j].fired
    /\ Len(engineLoads) < MaxAppEngineLoads
    /\ \A h \in 1..(j - 1) : autoLoadTimers[h].fired
    /\ LET timer == autoLoadTimers[j]
       IN  /\ autoLoadTimers' = [autoLoadTimers EXCEPT ![j].fired = TRUE]
           /\ IF timer.isPlayerReady
              THEN /\ engineLoads' = Append(engineLoads,
                                            EngineLoad(timer.url, "auto-load", timer.load))
                   /\ layoutLoads' = Append(layoutLoads,
                                            [layout |-> timer.layout, url |-> timer.url,
                                             by |-> "auto-load"])
              ELSE UNCHANGED <<engineLoads, layoutLoads>>
    /\ UNCHANGED <<manifestUrlToLoad, layouts, selectedLayout, isLoading, isSwitching,
                   error, currentLayoutRef, manifestLoads, loadRequests, appFrame>>

\* a player.load promise settles: the continuation of loadLayout, or the
\* then/catch of the auto-load
AppLoadSettle(i, resolved) ==
    /\ iteration = "App.js"
    /\ i \in 1..Len(layoutLoads)
    /\ LET call == layoutLoads[i]
       IN  /\ layoutLoads' = RemoveAt(layoutLoads, i)
           /\ currentLayoutRef' = IF resolved THEN call.layout ELSE currentLayoutRef
           /\ error' = IF resolved THEN error
                       ELSE IF call.by = "loadLayout" THEN "Error loading layout"
                       ELSE "Error loading first layout"
           /\ isSwitching' = IF call.by = "loadLayout" THEN FALSE ELSE isSwitching
    /\ UNCHANGED <<manifestUrlToLoad, layouts, selectedLayout, isLoading, manifestLoads,
                   engineLoads, loadRequests, autoLoadTimers, appFrame>>

\* handleLayoutChange of App.js and the loadLayout effect it triggers
AppHandleLayoutChange(name) ==
    /\ iteration = "App.js"
    /\ ~isSwitching /\ ~isLoading
    /\ name \in Names(layouts)
    /\ name # selectedLayout
    /\ AppCommit(TRUE, layouts, name, isLoading, error, 0)
    /\ UNCHANGED <<manifestUrlToLoad, currentLayoutRef, manifestLoads, loadRequests,
                   autoLoadTimers, appFrame>>

NextApp ==
    \/ \E url \in Urls : AppHandleLoadClick(url)
    \/ \E i \in 1..MaxManifestLoads, ok \in BOOLEAN, lines \in AppManifests :
           AppManifestSettle(i, ok, lines)
    \/ \E j \in 1..MaxAppLoads : AppAutoLoad(j)
    \/ \E i \in 1..MaxAppEngineLoads, resolved \in BOOLEAN : AppLoadSettle(i, resolved)
    \/ \E name \in {<<"a">>, <<"B">>} : AppHandleLayoutChange(name)

SpecApp == InitApp /\ [][NextApp]_vars

\* the player.load calls a top-level load led to
AutoLoadsOf(load) ==
    {i \in 1..Len(engineLoads) : engineLoads[i].manifestLoad = load}

\* C37: in App.js a successful top-level load with at least one layout makes
\* exactly one player.load call for the first layout, counting the call of
\* the 100 ms auto-load timer and the call of the loadLayout effect that the
\* auto-selection runs.
C37_OneEngineLoadPerTopLevelLoad ==
    \A j \in 1..Len(autoLoadTimers) :
        autoLoadTimers[j].fired
            => Cardinality(AutoLoadsOf(autoLoadTimers[j].load)) = 1


\* C38: in part_002, whenever the session is idle (isLoading and isSwitching
\* false, no manifest load and no layout load in flight) and a layout is
\* selected, the selected layout is the one loaded in the engine, the one
\* currentLayoutRef names.
C38_SelectionIsLoadedLayout ==
    (/\ ~isLoading /\ ~isSwitching
     /\ manifestLoads = << >> /\ layoutLoads = << >>
     /\ selectedLayout # NoLayout)
        => selectedLayout = currentLayoutRef


\* whether handleVideoClick of part_002 throws for a click at the canvas point:
\* the hit region has no parent_layout_name, and the callback of layouts.find
\* calls toLowerCase on it
ClickThrows(lays, rs, videoHasSize, pt) ==
    /\ Len(lays) > 1 /\ videoHasSize /\ Len(rs) > 0
    /\ HitRegion(rs, pt) # 0
    /\ rs[HitRegion(rs, pt)].parent_layout_name = Undefined

\* whether handleVideoClick of part_000 throws for a click at the canvas
\* point: layouts[hitRegion.source_idx] is undefined, and the console.log
\* after it reads its name
FallbackClickThrows(lays, rs, pt) ==
    /\ Len(lays) > 1
    /\ HitAnyRegion(rs, pt) # 0
    /\ rs[HitAnyRegion(rs, pt)].source_idx + 1 > Len(lays)

\* C40: a click on the video raises no exception, whatever regions the
\* metadata service returned: in part_002 also when the hit region has no
\* parent_layout_name, in part_000 also when its source_idx is no index of
\* the layout list.
C40_RegionClickNeverThrows ==
    /\ iteration = "part_002"
           => \A videoHasSize \in BOOLEAN, pt \in CanvasPoints :
                  ~ClickThrows(layouts, regions, videoHasSize, pt)
    /\ iteration = "part_000"
           => \A pt \in CanvasPoints : ~FallbackClickThrows(layouts, regions, pt)

====
